---------------------------- MODULE Spec2Model ----------------------------
(***************************************************************************)
(* Model of the NetKeiba extraction engine (class NetKeibaParser).         *)
(*                                                                         *)
(* The repository holds two versions of the parser:                        *)
(*   - the delimiter-keyed ("legacy") one, src/unnamed/part_011;           *)
(*   - the layout-keyed one, src/unnamed/part_010 (lines 370-1110).        *)
(* Both are modelled; operators of the first carry the suffix _legacy.     *)
(*                                                                         *)
(* Text representation.  A text is what text.split('\n') yields: a         *)
(* sequence of lines.  A line is a sequence of words (maximal runs of      *)
(* non-whitespace characters, separated by spaces or tabs).  A word is a   *)
(* sequence of atoms; an atom is the smallest piece of text one of the     *)
(* parser's regular expressions can tell apart: [k, s, n] with k the kind  *)
(* of token, s its text payload and n its numeric payload.  Japanese       *)
(* tokens are written romanised:                                           *)
(*   Tokyo/Sapporo  venue names            Shiba/Dirt    turf / dirt       *)
(*   Ryo/Yayaomo/Omo/Furyo  track condition (firm/good/yielding/soft)      *)
(*   Boba/Hinba/Sen   gender tokens (male/female/gelding)                  *)
(*   Tansho/Fukusho   the "win" / "place" section headers                  *)
(*   Miho/Ritto       stable locations                                     *)
(* Regular expressions are modelled by what they match on atom sequences,  *)
(* leftmost match first, as String.prototype.match does.                   *)
(***************************************************************************)
EXTENDS Integers, Sequences, FiniteSets, TLC

VARIABLES
    pc,      \* "ready": the call is about to be made; "done": it has returned
    op,      \* the extractor operation called
    config,  \* this.config of the parser instance
    text,    \* the argument of the call
    result,  \* the ParseResult returned (NoResult before the call)
    clock,   \* the value new Date() showed when it was last read
    previous, \* the call that returned before this one (NoCall if none)
    wizard,  \* the useRaceInputWizard hook of a mounted component
    store,   \* the state of useInvestmentStore
    sync     \* the store wrapped by syncMiddleware and its pending sync

parserVars == <<pc, op, config, text, result, clock, previous>>

appVars == <<wizard, store, sync>>

vars == <<pc, op, config, text, result, clock, previous, wizard, store, sync>>

\* the browser application is not running while the parsers are exercised
NoApp == "none"

AppIdle == wizard = NoApp /\ store = NoApp /\ sync = NoApp

---------------------------------------------------------------------------
(* Bounds of the model *)

\* longest single-line race-info text, in words
MaxRaceWords == 4
\* longest multi-line race-info text, in lines
MaxRaceLines == 3
\* largest value the clock read by new Date() can show
MaxClock == 1
\* longest roster text built from single lines, in lines
MaxHorseLines == 4
\* most fragments in a roster text built from whole fragments
MaxFragments == 3
\* longest odds text built from single lines, in lines
MaxOddsLines == 4
\* most entries in each section of an odds text built from whole sections
MaxOddsEntries == 2
\* most lines after the tipster's mark in a single roster fragment
MaxBlockLines == 4
\* most condition and class words after the fields of a race header
MaxMatchWords == 3

---------------------------------------------------------------------------
(* Generic helpers *)

Min(S) == CHOOSE x \in S : \A y \in S : x <= y

Max(S) == CHOOSE x \in S : \A y \in S : x >= y

Range(s) == {s[i] : i \in 1..Len(s)}

RECURSIVE Concat(_)
Concat(ss) == IF ss = <<>> THEN <<>> ELSE Head(ss) \o Concat(Tail(ss))

\* all sequences over S of length lo..hi
SeqsOf(S, lo, hi) == UNION {[1..n -> S] : n \in lo..hi}

\* index of the first element of s satisfying P, 0 when there is none
FirstIdx(s, P(_)) ==
    LET I == {i \in 1..Len(s) : P(s[i])}
    IN  IF I = {} THEN 0 ELSE Min(I)

A(k, s, n) == [k |-> k, s |-> s, n |-> n]

\* the atoms of a line, each tagged with its line, its word, its place in
\* the word and whether it ends its word (so that whitespace follows it)
TagLine(line, ln) ==
    Concat([w \in 1..Len(line) |->
              [i \in 1..Len(line[w]) |->
                 [a |-> line[w][i], ln |-> ln, w |-> w, p |-> i,
                  last |-> (i = Len(line[w]))]]])

TagText(t) == Concat([ln \in 1..Len(t) |-> TagLine(t[ln], ln)])

\* line.trim() is non-empty
NonBlank(line) == line # <<>>

---------------------------------------------------------------------------
(* Result construction *)

\* message stands for the fixed part of the message text; lineNumber is 0
\* where the code sets none
ParseError(type, field, message, lineNumber) ==
    [type |-> type, field |-> field, message |-> message,
     lineNumber |-> lineNumber]

Warning(msg, n) == [msg |-> msg, n |-> n]

NoData == <<>>

NoResult == [success |-> FALSE, hasData |-> FALSE, data |-> NoData,
             errors |-> <<>>, warnings |-> <<>>]

Failure(errors, warnings) ==
    [success |-> FALSE, hasData |-> FALSE, data |-> NoData,
     errors |-> errors, warnings |-> warnings]

Returned(success, data, errors, warnings) ==
    [success |-> success, hasData |-> TRUE, data |-> data,
     errors |-> errors, warnings |-> warnings]

\* no call has returned on this parser instance yet
NoCall == [op |-> "none", text |-> <<>>, result |-> NoResult]

\* the lists a call collects its diagnostics in when it starts:
\* const errors: ParseError[] = []; const warnings: string[] = []
FreshLists_shared ==
    [errors |-> previous.result.errors, warnings |-> previous.result.warnings]

FreshLists == [errors |-> <<>>, warnings |-> <<>>]

\* the result r of a call whose lists held lists when it started
StartedWith(lists, r) ==
    [r EXCEPT !.errors = lists.errors \o @, !.warnings = lists.warnings \o @]

\* the config the constructor builds from a Partial<ParserConfig>
DefaultConfig ==
    [strictMode |-> FALSE, skipInvalidHorses |-> TRUE,
     defaultOdds |-> 999, maxHorses |-> 18]

---------------------------------------------------------------------------
(* Enum conversions *)

parseSurface(surfaceStr) ==
    CASE surfaceStr = "Shiba" -> "TURF"
      [] surfaceStr = "Dirt"  -> "DIRT"
      [] OTHER                -> "TURF"

\* parseTrackCondition with the first two results exchanged
parseTrackCondition_swapped(conditionStr) ==
    CASE conditionStr = "Ryo"     -> "GOOD"
      [] conditionStr = "Yayaomo" -> "FIRM"
      [] conditionStr = "Omo"     -> "YIELDING"
      [] conditionStr = "Furyo"   -> "SOFT"
      [] OTHER                    -> "GOOD"

parseTrackCondition(conditionStr) ==
    CASE conditionStr = "Ryo"     -> "FIRM"
      [] conditionStr = "Yayaomo" -> "GOOD"
      [] conditionStr = "Omo"     -> "YIELDING"
      [] conditionStr = "Furyo"   -> "SOFT"
      [] OTHER                    -> "FIRM"

parseRaceClass(classStr) ==
    CASE classStr = "G1"       -> "G1"
      [] classStr = "G2"       -> "G2"
      [] classStr = "G3"       -> "G3"
      [] classStr = "Listed"   -> "LISTED"
      [] classStr = "Open"     -> "OPEN"
      [] classStr = "3Kachi"   -> "CLASS_3"
      [] classStr = "2Kachi"   -> "CLASS_2"
      [] classStr = "1Kachi"   -> "CLASS_1"
      [] classStr = "Mishori"  -> "MAIDEN"
      [] OTHER                 -> "OPEN"

---------------------------------------------------------------------------
(* Race-info patterns.  Each says which atoms a regular expression of      *)
(* parseRaceInfo matches.                                                  *)

\* IsVenue with Tokyo missing from the alternatives
IsVenue_noTokyo(x) == x.a.k = "venue" /\ x.a.s # "Tokyo"

\* /(Tokyo|Nakayama|...|Hakodate)/
IsVenue(x) == x.a.k = "venue"

\* /(\d+)R/
IsRaceNumber(x) == x.a.k = "raceNo"

\* /(Shiba|Dirt)(\d+)m/
IsDistance(x) == x.a.k = "dist"

\* IsCondition with Omo missing from the alternatives
IsCondition_noOmo(x) == x.a.k \in {"cond", "track"} /\ x.a.s # "Omo"

\* /(Ryo|Yayaomo|Omo|Furyo)/ : also found inside "Baba:Ryo"
IsCondition(x) == x.a.k \in {"cond", "track"}

\* /(G[123]|Listed|Open|3Kachi|2Kachi|1Kachi|Mishori)/
IsClass(x) == x.a.k = "class" /\ x.a.s \notin {"Risuteddo", "Shinba"}

\* /(\d{4})nen(\d{1,2})gatsu(\d{1,2})nichi/
IsDate(x) == x.a.k = "date"

UnknownWord == <<A("txt", "Fumei", 0)>>

\* the fields whose absence fails the call even when strictMode is off
IsCritical_legacy(e) == e.field \in {"venue", "raceNumber", "distance"}

\* ShouldAbort_legacy with the strictMode test left out
ShouldAbort_legacy_lenient(cfg, errors) ==
    Len(errors) > 0 /\ Len(SelectSeq(errors, IsCritical_legacy)) > 0

\* the decision taken once the scan is over: strict mode gives up on any
\* error, otherwise only an error on a critical field does
ShouldAbort_legacy(cfg, errors) ==
    /\ Len(errors) > 0
    /\ \/ cfg.strictMode
       \/ Len(SelectSeq(errors, IsCritical_legacy)) > 0

(* parseRaceInfo of the delimiter-keyed parser.  now is the value new Date() *)
(* yields at the time of the call.                                           *)
parseRaceInfo_legacy(t, cfg, now) ==
    LET atoms == TagText(t)
        venueMatch == FirstIdx(atoms, IsVenue)
        raceNumberMatch == FirstIdx(atoms, IsRaceNumber)
        \* /(\d+R\s+)([^\s]+)/ : a race number closing its word, and a word after it
        TitleAt == {i \in 1..Len(atoms) :
                       IsRaceNumber(atoms[i]) /\ atoms[i].last /\ i < Len(atoms)}
        titleMatch == IF TitleAt = {} THEN 0 ELSE Min(TitleAt)
        titleWord == LET x == atoms[titleMatch + 1] IN t[x.ln][x.w]
        distanceMatch == FirstIdx(atoms, IsDistance)
        conditionMatch == FirstIdx(atoms, IsCondition)
        classMatch == FirstIdx(atoms, IsClass)
        dateMatch == FirstIdx(atoms, IsDate)
        Err(found, field) ==
            IF found = 0
            THEN <<ParseError("RACE_INFO", field, "notFound", 0)>> ELSE <<>>
        Warn(found, msg) == IF found = 0 THEN <<Warning(msg, 0)>> ELSE <<>>
        errors == Err(venueMatch, "venue") \o Err(raceNumberMatch, "raceNumber")
                  \o Err(titleMatch, "title") \o Err(distanceMatch, "distance")
                  \o Err(dateMatch, "date")
        warnings == Warn(conditionMatch, "conditionDefault")
                    \o Warn(classMatch, "classDefault")
        raceInfo ==
            [venue |-> IF venueMatch # 0 THEN atoms[venueMatch].a.s ELSE "Fumei",
             raceNumber |-> IF raceNumberMatch # 0
                            THEN atoms[raceNumberMatch].a.n ELSE 0,
             title |-> IF titleMatch # 0 THEN titleWord ELSE UnknownWord,
             distance |-> IF distanceMatch # 0
                          THEN atoms[distanceMatch].a.n ELSE 0,
             surface |-> parseSurface(IF distanceMatch # 0
                                      THEN atoms[distanceMatch].a.s ELSE "Shiba"),
             condition |-> parseTrackCondition(
                               IF conditionMatch # 0
                               THEN atoms[conditionMatch].a.s ELSE "Ryo"),
             raceClass |-> parseRaceClass(IF classMatch # 0
                                          THEN atoms[classMatch].a.s ELSE "Open"),
             date |-> IF dateMatch # 0
                      THEN [src |-> "text", v |-> atoms[dateMatch].a.n]
                      ELSE [src |-> "now", v |-> now]]
    IN  IF ShouldAbort_legacy(cfg, errors)
        THEN Failure(errors, warnings)
        ELSE Returned(TRUE, raceInfo, errors, warnings)

\* the layout-keyed parser's class alternatives also list Risuteddo and Shinba
IsMeetingClass(x) == x.a.k = "class"

\* the fields whose absence fails the call even when strictMode is off
IsCritical(e) == e.field \in {"title", "raceDetails", "meetingInfo"}

\* GuessRaceNumber that leaves raceNumber at its initial 0 and says nothing
GuessRaceNumber_silent(atoms) ==
    LET raceNumberGuess == FirstIdx(atoms, IsRaceNumber)
    IN  IF raceNumberGuess # 0
        THEN [raceNumber |-> atoms[raceNumberGuess].a.n, warnings |-> <<>>]
        ELSE [raceNumber |-> 0, warnings |-> <<>>]

\* the race number read from a /(\d+)R/ marker, or 11 and a warning
GuessRaceNumber(atoms) ==
    LET raceNumberGuess == FirstIdx(atoms, IsRaceNumber)
    IN  IF raceNumberGuess # 0
        THEN [raceNumber |-> atoms[raceNumberGuess].a.n, warnings |-> <<>>]
        ELSE [raceNumber |-> 11,
              warnings |-> <<Warning("raceNumberDefault", 0)>>]

ShouldAbort(cfg, errors) ==
    /\ Len(errors) > 0
    /\ \/ cfg.strictMode
       \/ Len(SelectSeq(errors, IsCritical)) > 0

(* parseRaceInfo of the layout-keyed parser *)
parseRaceInfo(t, cfg, now) ==
    LET atoms == TagText(t)
        N == Len(atoms)
        titleMatch == t[1]
        \* /(\d+):(\d+)Hasso.*(Shiba|Dirt)(\d+)m.*Baba:(Ryo|Yayaomo|Omo|Furyo)/
        \* '.' stops at a line break; '.*' is greedy
        DistAfter(i) == {j \in (i+1)..N :
            /\ atoms[j].a.k = "dist" /\ atoms[j].ln = atoms[i].ln
            /\ \E k \in (j+1)..N :
                   atoms[k].a.k = "track" /\ atoms[k].ln = atoms[i].ln}
        DetailsAt == {i \in 1..N : atoms[i].a.k = "post" /\ DistAfter(i) # {}}
        raceDetailsMatch == IF DetailsAt = {} THEN 0 ELSE Min(DetailsAt)
        detailsDist == atoms[Max(DistAfter(raceDetailsMatch))].a
        detailsTrack ==
            atoms[Max({k \in 1..N : atoms[k].a.k = "track"
                          /\ atoms[k].ln = atoms[raceDetailsMatch].ln})].a
        \* /(\d+)Kai\s*(venue)\s*(\d+)Nichime.*?(class)/
        \* '\s*' may span a line break, '.*?' may not and is lazy
        ClassAfter(i) == {c \in (i+3)..N :
            IsMeetingClass(atoms[c]) /\ atoms[c].ln = atoms[i+2].ln}
        MeetingAt == {i \in 1..N :
            /\ i + 2 <= N
            /\ atoms[i].a.k = "kai" /\ atoms[i+1].a.k = "venue"
            /\ atoms[i+2].a.k = "day"
            /\ ClassAfter(i) # {}}
        meetingMatch == IF MeetingAt = {} THEN 0 ELSE Min(MeetingAt)
        guess == GuessRaceNumber(atoms)
        raceNumber == guess.raceNumber
        Err(missing, field) ==
            IF missing
            THEN <<ParseError("RACE_INFO", field, "notFound", 0)>> ELSE <<>>
        errors == Err(titleMatch = <<>>, "title")
                  \o Err(raceDetailsMatch = 0, "raceDetails")
                  \o Err(meetingMatch = 0, "meetingInfo")
        warnings == guess.warnings
        raceInfo ==
            [venue |-> IF meetingMatch # 0 THEN atoms[meetingMatch + 1].a.s
                       ELSE "Fumei",
             raceNumber |-> raceNumber,
             title |-> IF titleMatch # <<>> THEN titleMatch ELSE <<UnknownWord>>,
             distance |-> IF raceDetailsMatch # 0 THEN detailsDist.n ELSE 0,
             surface |-> parseSurface(IF raceDetailsMatch # 0
                                      THEN detailsDist.s ELSE "Shiba"),
             condition |-> parseTrackCondition(
                               IF raceDetailsMatch # 0
                               THEN detailsTrack.s ELSE "Ryo"),
             raceClass |-> parseRaceClass(
                               IF meetingMatch # 0
                               THEN atoms[Min(ClassAfter(meetingMatch))].a.s
                               ELSE "Open"),
             date |-> [src |-> "now", v |-> now]]
    IN  IF ShouldAbort(cfg, errors)
        THEN Failure(errors, warnings)
        ELSE Returned(TRUE, raceInfo, errors, warnings)

---------------------------------------------------------------------------
(* Race-info inputs *)

\* "TokyoKeibajo", "Dai11R", "NihonDerby(G1)", "Shiba2400m", "Omo", a date
RaceWords ==
    { <<A("venue", "Tokyo", 0), A("txt", "Keibajo", 0)>>,
      <<A("txt", "Dai", 0), A("raceNo", "", 11)>>,
      <<A("txt", "NihonDerby(", 0), A("class", "G1", 0), A("txt", ")", 0)>>,
      <<A("dist", "Shiba", 2400)>>,
      <<A("cond", "Omo", 0)>>,
      <<A("date", "", 20240526)>> }

\* the lines of a race header as pasted from the site
TitleLine == << <<A("txt", "KeenelandC", 0)>> >>
DetailsLine == << <<A("post", "15:35", 0)>>, <<A("dist", "Dirt", 1200)>>,
                  <<A("track", "Yayaomo", 0)>> >>
DetailsNoTrackLine == << <<A("post", "15:35", 0)>>, <<A("dist", "Dirt", 1200)>> >>
MeetingLine == << <<A("kai", "", 2)>>, <<A("venue", "Sapporo", 0)>>,
                  <<A("day", "", 2)>>, <<A("txt", "Sarakei", 0)>>,
                  <<A("class", "G3", 0)>> >>
MeetingNoClassLine == << <<A("kai", "", 2)>>, <<A("venue", "Sapporo", 0)>>,
                         <<A("day", "", 2)>> >>
RaceNumberLine == << <<A("raceNo", "", 9)>> >>
EmptyLine == <<>>

RaceLines == {TitleLine, DetailsLine, DetailsNoTrackLine, MeetingLine,
              MeetingNoClassLine, RaceNumberLine, EmptyLine}

RaceTexts ==
    {<<line>> : line \in SeqsOf(RaceWords, 0, MaxRaceWords)}
    \cup SeqsOf(RaceLines, 1, MaxRaceLines)

Times == 0..MaxClock

---------------------------------------------------------------------------
(* Roster patterns.  Atom kinds of a roster text:                          *)
(*   int    digits                     dec    digits '.' digits (n: tenths)*)
(*   kana   katakana/latin letters (n: length)                             *)
(*   kanji  kanji letters (n: length)  mark   a tipster's mark, "--"       *)
(*   ga     gender token and age digits (s: gender, n: age)                *)
(*   coat   coat colour                stable Miho or Ritto                *)
(*   sep    the middle dot             pop    "(16Ninki)", popularity rank *)
(*   bw     "478kg(+2)", body weight   style  running style, "SashiNaka"   *)

IsInt(word) == Len(word) = 1 /\ word[1].k = "int"

IsNumber(word) == Len(word) = 1 /\ word[1].k \in {"int", "dec"}

\* parseFloat of a number word, in tenths
NumberValue(word) == IF word[1].k = "int" THEN 10 * word[1].n ELSE word[1].n

\* /^(\d+)\s+(\d+)\s*$/ : the frame number and the horse number, alone
IsMarkerLine(line) == Len(line) = 2 /\ IsInt(line[1]) /\ IsInt(line[2])

\* /[katakana hiragana a-zA-Z]/.test(line)
HasNameChar(line) == \E x \in Range(TagLine(line, 1)) : x.a.k \in {"kana", "sep"}

\* the line.includes(...) exclusions of the name candidates
HasNameNoise(line) ==
    \E x \in Range(TagLine(line, 1)) :
        x.a.k \in {"pop", "bw", "stable", "style", "ga"}

IsNameCandidate(line) ==
    NonBlank(line) /\ HasNameChar(line) /\ ~HasNameNoise(line)

\* /(\d+\.\d+)\s*\((\d+)Ninki\)/
MatchesOddsPattern(line) ==
    LET xs == TagLine(line, 1)
    IN  \E i \in 1..(Len(xs) - 1) : xs[i].a.k = "dec" /\ xs[i+1].a.k = "pop"

\* /(Boba|Hinba|Sen)(\d+)(Kurokage|Kuri|Kage|Aokage|Ashi|Shiro)/ :
\* index of the first match among the atoms of the line, 0 when none
GenderAgeColorAt(line) ==
    LET xs == TagLine(line, 1)
        I == {i \in 1..(Len(xs) - 1) :
                 xs[i].a.k = "ga" /\ ~xs[i].last /\ xs[i+1].a.k = "coat"}
    IN  IF I = {} THEN 0 ELSE Min(I)

\* /(\d+)kg\(([+-]?\d+)\)/
MatchesWeightPattern(line) == \E x \in Range(TagLine(line, 1)) : x.a.k = "bw"

AtomLen(a) == IF a.k \in {"kana", "kanji"} THEN a.n
              ELSE IF a.k \in {"stable", "style"} THEN 2 ELSE 1

RECURSIVE SumLen(_)
SumLen(word) == IF word = <<>> THEN 0 ELSE AtomLen(Head(word)) + SumLen(Tail(word))

\* the conditions under which a line is taken as the jockey's name: 2 to 8
\* letters of the name character class, and none of the excluded tokens
\* (stable location, running style, kg, Ninki, ...)
IsJockeyLine(line) ==
    /\ Len(line) = 1
    /\ SumLen(line[1]) >= 2 /\ SumLen(line[1]) <= 8
    /\ \A i \in 1..Len(line[1]) :
           line[1][i].k \in {"kana", "kanji", "sep", "coat"}

\* /(Miho|Ritto)<dot>([^\s]+)/ : index of the first match, 0 when none
TrainerAt(line) ==
    LET xs == TagLine(line, 1)
        I == {i \in 1..(Len(xs) - 2) :
                 /\ xs[i].a.k = "stable" /\ ~xs[i].last
                 /\ xs[i+1].a.k = "sep" /\ ~xs[i+1].last}
    IN  IF I = {} THEN 0 ELSE Min(I)

\* parseGender with another default
parseGender_female(genderStr) ==
    CASE genderStr = "Boba"  -> "MALE"
      [] genderStr = "Hinba" -> "FEMALE"
      [] genderStr = "Sen"   -> "GELDING"
      [] OTHER               -> "FEMALE"

parseGender(genderStr) ==
    CASE genderStr = "Boba"  -> "MALE"
      [] genderStr = "Hinba" -> "FEMALE"
      [] genderStr = "Sen"   -> "GELDING"
      [] OTHER               -> "MALE"

\* String.prototype.trim on a block: blank lines at its end are dropped
RECURSIVE TrimBlock(_)
TrimBlock(b) ==
    IF b = <<>> THEN <<>>
    ELSE IF b[Len(b)] = <<>> THEN TrimBlock(SubSeq(b, 1, Len(b) - 1))
         ELSE b

RECURSIVE SplitLoop(_, _, _, _, _)
SplitLoop(lines, i, blocks, currentBlock, inHorseData) ==
    IF i > Len(lines)
    THEN IF TrimBlock(currentBlock) # <<>> /\ inHorseData
         THEN Append(blocks, TrimBlock(currentBlock)) ELSE blocks
    ELSE IF IsMarkerLine(lines[i])
         THEN SplitLoop(lines, i + 1,
                        IF TrimBlock(currentBlock) # <<>> /\ inHorseData
                        THEN Append(blocks, TrimBlock(currentBlock)) ELSE blocks,
                        IF i + 1 <= Len(lines)
                        THEN <<lines[i], lines[i + 1]>> ELSE <<lines[i]>>,
                        TRUE)
         ELSE IF inHorseData
              THEN SplitLoop(lines, i + 1, blocks,
                             Append(currentBlock, lines[i]), TRUE)
              ELSE SplitLoop(lines, i + 1, blocks, currentBlock, inHorseData)

splitIntoHorseBlocks(t) == SplitLoop(t, 1, <<>>, <<>>, FALSE)

Thrown(message) == [ok |-> FALSE, message |-> message]

\* PickHorseName that takes the first candidate
PickHorseName_first(candidateNames) ==
    IF Len(candidateNames) >= 1 THEN candidateNames[1] ELSE <<>>

\* which of the name candidates is the horse's name ("" when there is none)
PickHorseName(candidateNames) ==
    IF Len(candidateNames) >= 2 THEN candidateNames[2]
    ELSE IF Len(candidateNames) >= 1 THEN candidateNames[1]
    ELSE <<>>

(* parseHorseBlock: the record of one block, or the error it throws.  The  *)
(* assignments to the undeclared odds and bodyWeight throw a               *)
(* ReferenceError (a class body is strict-mode code).                      *)
parseHorseBlock(block, blockNumber) ==
    LET lines == block
        n == Len(lines)
        horseNumber == lines[1][2][1].n
        candidateNames ==
            SelectSeq(SubSeq(lines, 3, Min({n, 6})), IsNameCandidate)
        horseName == PickHorseName(candidateNames)
        OddsPopLines == {i \in 1..n : MatchesOddsPattern(lines[i])}
        GacLines == {i \in 1..n : GenderAgeColorAt(lines[i]) # 0}
        gac == LET l == lines[Min(GacLines)]
               IN  TagLine(l, 1)[GenderAgeColorAt(l)].a
        gender == IF GacLines = {} THEN "male" ELSE gac.s
        age == IF GacLines = {} THEN 4 ELSE gac.n
        WeightLines == {i \in 1..n : MatchesWeightPattern(lines[i])}
        \* the first line after a gender/age/coat line that qualifies
        JockeyAt == {i \in 1..n :
                        /\ GenderAgeColorAt(lines[i]) = 0
                        /\ \E g \in GacLines : g < i
                        /\ IsJockeyLine(lines[i])}
        jockeyIdx == IF JockeyAt = {} THEN 0 ELSE Min(JockeyAt)
        jockeyName == IF jockeyIdx = 0 THEN <<>> ELSE lines[jockeyIdx]
        \* /^(\d+\.\d+)/ on the line after the jockey's
        weight ==
            IF jockeyIdx # 0 /\ jockeyIdx + 1 <= n
               /\ lines[jockeyIdx + 1] # <<>>
               /\ lines[jockeyIdx + 1][1][1].k = "dec"
            THEN lines[jockeyIdx + 1][1][1].n ELSE 550
        TrainerLines == {i \in 1..n : TrainerAt(lines[i]) # 0}
        trainerName ==
            IF TrainerLines = {} THEN <<>>
            ELSE LET l == lines[Min(TrainerLines)]
                     x == TagLine(l, 1)[TrainerAt(l)]
                 IN  SubSeq(l[x.w], x.p + 2, Len(l[x.w]))
    IN  IF ~(n >= 1 /\ Len(lines[1]) >= 2 /\ IsInt(lines[1][1]) /\ IsInt(lines[1][2]))
        THEN Thrown("frameHorseNotFound")
        ELSE IF horseName = <<>> THEN Thrown("horseNameNotFound")
        ELSE IF OddsPopLines # {} THEN Thrown("ReferenceError:odds")
        ELSE IF WeightLines # {} THEN Thrown("ReferenceError:bodyWeight")
        ELSE [ok |-> TRUE,
              horse |-> [number |-> horseNumber, name |-> horseName,
                         age |-> age, gender |-> parseGender(gender),
                         weight |-> weight, jockeyName |-> jockeyName,
                         trainerName |-> trainerName]]

\* FragmentFailure that also gives up the records collected so far
FragmentFailure_dropping(cfg, acc, parseError) ==
    IF cfg.skipInvalidHorses
    THEN [acc EXCEPT !.horses = <<>>,
                     !.warnings = Append(@, Warning(parseError.message,
                                                    parseError.lineNumber))]
    ELSE [acc EXCEPT !.horses = <<>>, !.errors = Append(@, parseError)]

\* FragmentFailure that skips a fragment without a word
FragmentFailure_quiet(cfg, acc, parseError) ==
    IF cfg.skipInvalidHorses
    THEN acc
    ELSE [acc EXCEPT !.errors = Append(@, parseError)]

\* FragmentFailure that never looks at skipInvalidHorses
FragmentFailure_alwaysSkip(cfg, acc, parseError) ==
    [acc EXCEPT !.warnings = Append(@, Warning(parseError.message,
                                               parseError.lineNumber))]

\* where the diagnostic of a failed fragment goes
FragmentFailure(cfg, acc, parseError) ==
    IF cfg.skipInvalidHorses
    THEN [acc EXCEPT !.warnings = Append(@, Warning(parseError.message,
                                                    parseError.lineNumber))]
    ELSE [acc EXCEPT !.errors = Append(@, parseError)]

\* RosterResult that cuts the list at maxHorses
RosterResult_truncating(cfg, acc) ==
    LET errors == IF Len(acc.horses) = 0
                  THEN Append(acc.errors,
                              ParseError("HORSE_DATA", "general", "noValidHorse", 0))
                  ELSE acc.errors
        warnings == IF Len(acc.horses) > cfg.maxHorses
                    THEN Append(acc.warnings, Warning("tooManyHorses", 0))
                    ELSE acc.warnings
    IN  Returned(Len(errors) = 0,
                 SubSeq(acc.horses, 1, Min({Len(acc.horses), cfg.maxHorses})),
                 errors, warnings)

\* RosterResult with success taken from the horse count alone
RosterResult_byCount(cfg, acc) ==
    LET errors == IF Len(acc.horses) = 0
                  THEN Append(acc.errors,
                              ParseError("HORSE_DATA", "general", "noValidHorse", 0))
                  ELSE acc.errors
        warnings == IF Len(acc.horses) > cfg.maxHorses
                    THEN Append(acc.warnings, Warning("tooManyHorses", 0))
                    ELSE acc.warnings
    IN  Returned(Len(acc.horses) > 0, acc.horses, errors, warnings)

\* the checks made once every fragment has been handled, and the return
RosterResult(cfg, acc) ==
    LET errors == IF Len(acc.horses) = 0
                  THEN Append(acc.errors,
                              ParseError("HORSE_DATA", "general", "noValidHorse", 0))
                  ELSE acc.errors
        warnings == IF Len(acc.horses) > cfg.maxHorses
                    THEN Append(acc.warnings, Warning("tooManyHorses", 0))
                    ELSE acc.warnings
    IN  Returned(Len(errors) = 0, acc.horses, errors, warnings)

RECURSIVE BlockLoop(_, _, _, _)
BlockLoop(horseBlocks, i, cfg, acc) ==
    IF i > Len(horseBlocks) THEN acc
    ELSE LET r == parseHorseBlock(horseBlocks[i], i)
         IN  BlockLoop(horseBlocks, i + 1, cfg,
                 IF r.ok THEN [acc EXCEPT !.horses = Append(@, r.horse)]
                 ELSE FragmentFailure(cfg, acc,
                          ParseError("HORSE_DATA", "horseBlock", r.message, i)))

EmptyAcc == [horses |-> <<>>, errors |-> <<>>, warnings |-> <<>>]

(* parseHorseDataInternal of the layout-keyed parser *)
parseHorseDataInternal(t, cfg) ==
    RosterResult(cfg, BlockLoop(splitIntoHorseBlocks(t), 1, cfg, EmptyAcc))

\* /^(\d+)\s+([^\s]+)\s+(Boba|Hinba|Sen)(\d+)\s+(\d+(?:\.\d+)?)\s+([^\s]+)\s+([^\s]+)/
MatchesHorseLine(line) ==
    /\ Len(line) >= 6
    /\ IsInt(line[1])
    /\ Len(line[3]) = 1 /\ line[3][1].k = "ga"
    /\ IsNumber(line[4])

(* parseHorseLine of the delimiter-keyed parser *)
parseHorseLine(line, lineNumber) ==
    IF ~MatchesHorseLine(line) THEN Thrown("badHorseLine")
    ELSE [ok |-> TRUE,
          horse |-> [number |-> line[1][1].n, name |-> line[2],
                     age |-> line[3][1].n, gender |-> parseGender(line[3][1].s),
                     weight |-> NumberValue(line[4]), jockeyName |-> line[5],
                     trainerName |-> line[6]]]

RECURSIVE LineLoop(_, _, _, _)
LineLoop(lines, i, cfg, acc) ==
    IF i > Len(lines) THEN acc
    ELSE LET r == parseHorseLine(lines[i], i)
         IN  LineLoop(lines, i + 1, cfg,
                 IF r.ok THEN [acc EXCEPT !.horses = Append(@, r.horse)]
                 ELSE FragmentFailure(cfg, acc,
                          ParseError("HORSE_DATA", "horseLine", r.message, i)))

(* parseHorseDataInternal of the delimiter-keyed parser *)
parseHorseDataInternal_legacy(t, cfg) ==
    RosterResult(cfg, LineLoop(SelectSeq(t, NonBlank), 1, cfg, EmptyAcc))

convertGenderToString(gender) ==
    CASE gender = "MALE"    -> "male"
      [] gender = "FEMALE"  -> "female"
      [] gender = "GELDING" -> "gelding"
      [] OTHER              -> "male"

(* parseHorseData: the roster in the form's shape.  It returns a list, or   *)
(* throws an Error with the first error's message; r is what                *)
(* parseHorseDataInternal returned.                                         *)
HorseDataForm(r) ==
    IF ~r.success \/ ~r.hasData
    THEN [thrown |-> TRUE,
          message |-> IF r.errors # <<>> THEN r.errors[1].message
                      ELSE "parseFailed",
          value |-> <<>>]
    ELSE [thrown |-> FALSE,
          message |-> "",
          value |-> [i \in DOMAIN r.data |->
                       [number |-> r.data[i].number, name |-> r.data[i].name,
                        age |-> r.data[i].age,
                        gender |-> convertGenderToString(r.data[i].gender),
                        weight |-> r.data[i].weight,
                        jockeyName |-> r.data[i].jockeyName,
                        trainerName |-> r.data[i].trainerName,
                        ownerName |-> <<>>]]]

parseHorseData(t, cfg) == HorseDataForm(parseHorseDataInternal(t, cfg))

parseHorseData_legacy(t, cfg) ==
    HorseDataForm(parseHorseDataInternal_legacy(t, cfg))

---------------------------------------------------------------------------
(* Roster inputs *)

MarkerLine(num) == << <<A("int", "", 1)>>, <<A("int", "", num)>> >>
MarkLine == << <<A("mark", "--", 0)>> >>
PedigreeLine == << <<A("kana", "DeputyMinister", 9)>> >>
NameLine == << <<A("kana", "MindYourBiscuits", 11)>> >>
GacLine == << <<A("ga", "Hinba", 5), A("coat", "Kuri", 0)>> >>
JockeyLine == << <<A("kanji", "FurukawaYoshi", 3)>> >>
WeightLine == << <<A("dec", "", 555)>> >>
TrainerLine == << <<A("stable", "Miho", 0), A("sep", "", 0),
                    A("kanji", "Maki", 1)>> >>
OddsPopLine == << <<A("dec", "", 1763)>>, <<A("pop", "", 16)>> >>
BodyWeightLine == << <<A("bw", "", 478)>> >>

\* whole fragments: complete, without a usable name, with an odds line,
\* with a body-weight line, and with the name only
FullFragment(num) == <<MarkerLine(num), MarkLine, PedigreeLine, NameLine, GacLine,
                       JockeyLine, WeightLine, TrainerLine>>
NoNameFragment(num) == <<MarkerLine(num), MarkLine, GacLine, JockeyLine>>
OddsFragment(num) == <<MarkerLine(num), MarkLine, NameLine, OddsPopLine>>
BodyWeightFragment(num) == <<MarkerLine(num), MarkLine, NameLine, BodyWeightLine>>
NameOnlyFragment(num) == <<MarkerLine(num), MarkLine, NameLine>>

HorseNumbers == {1, 2}

Fragments ==
    UNION {{FullFragment(h), NoNameFragment(h), OddsFragment(h),
            BodyWeightFragment(h), NameOnlyFragment(h)} : h \in HorseNumbers}

FragmentRosters ==
    {Concat(fs) : fs \in SeqsOf(Fragments, 0, MaxFragments)}

HorseLines == {MarkerLine(1), MarkerLine(2), NameLine, OddsPopLine, GacLine,
               EmptyLine}

\* "1 Horse Boba3 57.0 Jockey Trainer" and a line that is no horse line
HorseLine_legacy(num) ==
    << <<A("int", "", num)>>, <<A("kana", "Horse", 3)>>, <<A("ga", "Boba", 3)>>,
       <<A("dec", "", 570)>>, <<A("kanji", "Jockey", 3)>>,
       <<A("kanji", "Trainer", 3)>> >>
InvalidHorseLine == << <<A("kana", "Fusei", 3)>> >>

HorseLines_legacy == {HorseLine_legacy(1), HorseLine_legacy(2),
                      InvalidHorseLine, EmptyLine}

HorseTexts ==
    SeqsOf(HorseLines, 1, MaxHorseLines)
    \cup (FragmentRosters \ {<<>>})
    \cup SeqsOf(HorseLines_legacy, 1, MaxHorseLines)

---------------------------------------------------------------------------
(* Odds patterns.  Odds are held in sixtieths, so that a value given in    *)
(* tenths divides exactly by 3 and by 2.                                   *)

\* parseFloat of a number atom
OddsValue(a) == IF a.k = "int" THEN 60 * a.n ELSE 6 * a.n

IsNumberAtom(a) == a.k \in {"int", "dec"}

IsSectionLine(line, name) ==
    Len(line) = 1 /\ Len(line[1]) = 1
    /\ line[1][1].k = "section" /\ line[1][1].s = name

\* the table-header lines (Waku and Uma, Ban and Shirushi, Sentaku and Bamei)
IsHeaderLine(line) == \E x \in Range(TagLine(line, 1)) : x.a.k = "header"

\* /^(.+?)\s+(\d+(?:\.\d+)?)$/ : a number word closing the line, a name before it
MatchesWin(line) ==
    LET xs == TagLine(line, 1)
        N == Len(xs)
    IN  N >= 2 /\ IsNumberAtom(xs[N].a) /\ xs[N].p = 1 /\ xs[N].w >= 2

WinValue(line) == OddsValue(line[Len(line)][1])

\* /^(.+?)\s+(\d+(?:\.\d+)?)\s*-\s*(\d+(?:\.\d+)?)$/
MatchesPlace(line) ==
    LET xs == TagLine(line, 1)
        N == Len(xs)
    IN  /\ N >= 4
        /\ IsNumberAtom(xs[N].a) /\ xs[N - 1].a.k = "dash"
        /\ IsNumberAtom(xs[N - 2].a) /\ xs[N - 2].p = 1 /\ xs[N - 2].w >= 2

PlaceValue(line) ==
    LET xs == TagLine(line, 1)
        N == Len(xs)
    IN  [min |-> OddsValue(xs[N - 2].a), max |-> OddsValue(xs[N].a)]

\* Map.prototype.set
MapSet(m, key, value) ==
    [k \in DOMAIN m \cup {key} |-> IF k = key THEN value ELSE m[k]]

EmptyMap == [k \in {} |-> 0]

(* the scan of parseOdds: the win map and the place map it builds *)
RECURSIVE OddsScan(_, _, _, _, _)
OddsScan(lines, i, currentSection, winOddsData, placeOddsData) ==
    IF i > Len(lines)
    THEN [win |-> winOddsData, place |-> placeOddsData]
    ELSE LET line == lines[i]
         IN  IF IsSectionLine(line, "Tansho")
             THEN OddsScan(lines, i + 1, "win", winOddsData, placeOddsData)
             ELSE IF IsSectionLine(line, "Fukusho")
             THEN OddsScan(lines, i + 1, "place", winOddsData, placeOddsData)
             ELSE IF IsHeaderLine(line)
             THEN OddsScan(lines, i + 1, currentSection, winOddsData,
                           placeOddsData)
             ELSE IF IsMarkerLine(line) /\ i + 1 <= Len(lines)
             THEN LET horseNumber == line[2][1].n
                      nextLine == lines[i + 1]
                  IN  IF currentSection = "win" /\ MatchesWin(nextLine)
                      THEN OddsScan(lines, i + 2, currentSection,
                                    MapSet(winOddsData, horseNumber,
                                           WinValue(nextLine)),
                                    placeOddsData)
                      ELSE IF currentSection = "place" /\ MatchesPlace(nextLine)
                      THEN OddsScan(lines, i + 2, currentSection, winOddsData,
                                    MapSet(placeOddsData, horseNumber,
                                           PlaceValue(nextLine)))
                      ELSE OddsScan(lines, i + 1, currentSection, winOddsData,
                                    placeOddsData)
             ELSE OddsScan(lines, i + 1, currentSection, winOddsData,
                           placeOddsData)

OddsMaps(t) == OddsScan(SelectSeq(t, NonBlank), 1, "", EmptyMap, EmptyMap)

\* a || b of JavaScript on numbers: b when a is 0
OrElse(a, b) == IF a # 0 THEN a ELSE b

\* the record built for one horse number out of the two maps
CombineOdds(cfg, maps, horseNumber) ==
    LET winOdds == IF horseNumber \in DOMAIN maps.win
                   THEN OrElse(maps.win[horseNumber], 6 * cfg.defaultOdds)
                   ELSE 6 * cfg.defaultOdds
        hasPlace == horseNumber \in DOMAIN maps.place
    IN  [horseNumber |-> horseNumber,
         winOdds |-> winOdds,
         placeOddsMin |-> IF hasPlace
                          THEN OrElse(maps.place[horseNumber].min, winOdds \div 3)
                          ELSE winOdds \div 3,
         placeOddsMax |-> IF hasPlace
                          THEN OrElse(maps.place[horseNumber].max, winOdds \div 2)
                          ELSE winOdds \div 2]

\* SortedSeq with the comparison turned round
RECURSIVE SortedSeq_descending(_)
SortedSeq_descending(S) ==
    IF S = {} THEN <<>>
    ELSE <<Max(S)>> \o SortedSeq_descending(S \ {Max(S)})

\* the elements of a set of numbers in ascending order
RECURSIVE SortedSeq(_)
SortedSeq(S) == IF S = {} THEN <<>>
                ELSE <<Min(S)>> \o SortedSeq(S \ {Min(S)})

(* parseOdds of the layout-keyed parser *)
parseOdds(t, cfg) ==
    LET maps == OddsMaps(t)
        allHorseNumbers == SortedSeq(DOMAIN maps.win \cup DOMAIN maps.place)
        oddsData == [j \in 1..Len(allHorseNumbers) |->
                        CombineOdds(cfg, maps, allHorseNumbers[j])]
    IN  Returned(TRUE, oddsData, <<>>, <<>>)

\* /^(\d+)\s+(\d+(?:\.\d+)?)\s+(\d+(?:\.\d+)?)-(\d+(?:\.\d+)?)/
MatchesOddsLine(line) ==
    /\ Len(line) >= 3
    /\ IsInt(line[1]) /\ IsNumber(line[2])
    /\ Len(line[3]) >= 3
    /\ IsNumberAtom(line[3][1]) /\ line[3][2].k = "dash"
    /\ IsNumberAtom(line[3][3])

\* /^(\d+)\s+(\d+(?:\.\d+)?)/
MatchesSimpleOddsLine(line) ==
    Len(line) >= 2 /\ IsInt(line[1]) /\ IsNumberAtom(line[2][1])

(* parseOddsLine of the delimiter-keyed parser *)
parseOddsLine(line, lineNumber) ==
    IF MatchesOddsLine(line)
    THEN [ok |-> TRUE,
          odds |-> [horseNumber |-> line[1][1].n,
                    winOdds |-> OddsValue(line[2][1]),
                    placeOddsMin |-> OddsValue(line[3][1]),
                    placeOddsMax |-> OddsValue(line[3][3])]]
    ELSE IF MatchesSimpleOddsLine(line)
    THEN [ok |-> TRUE,
          odds |-> [horseNumber |-> line[1][1].n,
                    winOdds |-> OddsValue(line[2][1]),
                    placeOddsMin |-> OddsValue(line[2][1]) \div 3,
                    placeOddsMax |-> OddsValue(line[2][1]) \div 2]]
    ELSE Thrown("badOddsLine")

RECURSIVE OddsLineLoop(_, _, _)
OddsLineLoop(lines, i, acc) ==
    IF i > Len(lines) THEN acc
    ELSE LET r == parseOddsLine(lines[i], i)
         IN  OddsLineLoop(lines, i + 1,
                 IF r.ok THEN [acc EXCEPT !.oddsData = Append(@, r.odds)]
                 ELSE [acc EXCEPT !.warnings = Append(@, Warning(r.message, i))])

(* parseOdds of the delimiter-keyed parser *)
parseOdds_legacy(t, cfg) ==
    LET acc == OddsLineLoop(SelectSeq(t, NonBlank), 1,
                            [oddsData |-> <<>>, warnings |-> <<>>])
    IN  Returned(TRUE, acc.oddsData, <<>>, acc.warnings)

---------------------------------------------------------------------------
(* Odds inputs *)

TanshoLine == << <<A("section", "Tansho", 0)>> >>
FukushoLine == << <<A("section", "Fukusho", 0)>> >>
OddsHeaderLine == << <<A("header", "Waku", 0)>>, <<A("header", "Umaban", 0)>> >>
\* "TwinkleToes 2.1"
WinLine(tenths) == << <<A("kana", "TwinkleToes", 9)>>, <<A("dec", "", tenths)>> >>
\* "TwinkleToes 1.6 - 1.9"
PlaceLine(lo, hi) == << <<A("kana", "TwinkleToes", 9)>>, <<A("dec", "", lo)>>,
                        <<A("dash", "-", 0)>>, <<A("dec", "", hi)>> >>
\* "1 3.2 1.1-1.3", "2 8.5" and "1 OddsNashi"
OddsLine_legacy ==
    << <<A("int", "", 1)>>, <<A("dec", "", 32)>>,
       <<A("dec", "", 11), A("dash", "-", 0), A("dec", "", 13)>> >>
SimpleOddsLine_legacy == << <<A("int", "", 2)>>, <<A("dec", "", 85)>> >>
InvalidOddsLine == << <<A("int", "", 1)>>, <<A("kana", "OddsNashi", 5)>> >>

\* "OddsNashi": a data line without odds
NoOddsLine == << <<A("kana", "OddsNashi", 5)>> >>

OddsLines == {TanshoLine, FukushoLine, MarkerLine(1), MarkerLine(2),
              WinLine(21), PlaceLine(16, 19), PlaceLine(30, 20), NoOddsLine}

OddsLines_legacy == {OddsLine_legacy, SimpleOddsLine_legacy, InvalidOddsLine,
                     EmptyLine}

\* the two sections as the site lays them out: header lines, then a marker
\* line and a data line per horse
WinEntries == {<<MarkerLine(h), WinLine(v)>> : h \in HorseNumbers, v \in {5, 54}}
PlaceEntries == {<<MarkerLine(h), PlaceLine(lo, 19)>> :
                    h \in HorseNumbers, lo \in {0, 16}}

SectionTexts ==
    {<<TanshoLine, OddsHeaderLine>> \o Concat(ws)
       \o <<FukushoLine, OddsHeaderLine>> \o Concat(ps) :
         ws \in SeqsOf(WinEntries, 0, MaxOddsEntries),
         ps \in SeqsOf(PlaceEntries, 0, MaxOddsEntries)}

OddsTexts ==
    SeqsOf(OddsLines, 1, MaxOddsLines)
    \cup SectionTexts
    \cup SeqsOf(OddsLines_legacy, 1, MaxOddsLines)

---------------------------------------------------------------------------
(* The calls *)

RaceOps == {"parseRaceInfo", "parseRaceInfo_legacy"}

HorseOps == {"parseHorseDataInternal", "parseHorseDataInternal_legacy"}

OddsOps == {"parseOdds", "parseOdds_legacy"}

FormOps == {"parseHorseData", "parseHorseData_legacy"}

\* the configs a parser is constructed with: the defaults, with the fields
\* the operation reads overridden
ConfigsFor(o) ==
    IF o \in RaceOps
    THEN {[DefaultConfig EXCEPT !.strictMode = b] : b \in BOOLEAN}
    ELSE IF o \in HorseOps \cup FormOps
    THEN {[DefaultConfig EXCEPT !.skipInvalidHorses = b, !.maxHorses = m] :
              b \in BOOLEAN, m \in {1, 18}}
    ELSE {DefaultConfig}

InputsFor(o) ==
    IF o \in RaceOps THEN RaceTexts
    ELSE IF o \in HorseOps \cup FormOps \cup {"splitIntoHorseBlocks"}
    THEN HorseTexts
    ELSE OddsTexts

InitFor(ops) ==
    /\ pc = "ready"
    /\ op \in ops
    /\ config \in ConfigsFor(op)
    /\ text \in InputsFor(op)
    /\ result = NoResult
    /\ clock = 0
    /\ previous = NoCall
    /\ AppIdle

CallParseRaceInfo_legacy ==
    /\ pc = "ready" /\ op = "parseRaceInfo_legacy"
    /\ \E now \in Times :
          /\ now >= clock
          /\ clock' = now
          /\ result' = StartedWith(FreshLists, parseRaceInfo_legacy(text, config, now))
    /\ pc' = "done"
    /\ UNCHANGED <<op, config, text, previous>>
    /\ UNCHANGED appVars

CallParseRaceInfo ==
    /\ pc = "ready" /\ op = "parseRaceInfo"
    /\ \E now \in Times :
          /\ now >= clock
          /\ clock' = now
          /\ result' = StartedWith(FreshLists, parseRaceInfo(text, config, now))
    /\ pc' = "done"
    /\ UNCHANGED <<op, config, text, previous>>
    /\ UNCHANGED appVars

InitRace == InitFor(RaceOps)

NextRace == CallParseRaceInfo_legacy \/ CallParseRaceInfo

SpecRace == InitRace /\ [][NextRace]_vars

CallParseHorseDataInternal ==
    /\ pc = "ready" /\ op = "parseHorseDataInternal"
    /\ result' = StartedWith(FreshLists, parseHorseDataInternal(text, config))
    /\ pc' = "done"
    /\ UNCHANGED <<op, config, text, clock, previous>>
    /\ UNCHANGED appVars

CallParseHorseDataInternal_legacy ==
    /\ pc = "ready" /\ op = "parseHorseDataInternal_legacy"
    /\ result' = StartedWith(FreshLists, parseHorseDataInternal_legacy(text, config))
    /\ pc' = "done"
    /\ UNCHANGED <<op, config, text, clock, previous>>
    /\ UNCHANGED appVars

InitHorse == InitFor(HorseOps)

NextHorse == CallParseHorseDataInternal \/ CallParseHorseDataInternal_legacy

SpecHorse == InitHorse /\ [][NextHorse]_vars

CallParseOdds ==
    /\ pc = "ready" /\ op = "parseOdds"
    /\ result' = StartedWith(FreshLists, parseOdds(text, config))
    /\ pc' = "done"
    /\ UNCHANGED <<op, config, text, clock, previous>>
    /\ UNCHANGED appVars

CallParseOdds_legacy ==
    /\ pc = "ready" /\ op = "parseOdds_legacy"
    /\ result' = StartedWith(FreshLists, parseOdds_legacy(text, config))
    /\ pc' = "done"
    /\ UNCHANGED <<op, config, text, clock, previous>>
    /\ UNCHANGED appVars

InitOdds == InitFor(OddsOps)

NextOdds == CallParseOdds \/ CallParseOdds_legacy

SpecOdds == InitOdds /\ [][NextOdds]_vars

CallParseHorseData ==
    /\ pc = "ready" /\ op = "parseHorseData"
    /\ result' = parseHorseData(text, config)
    /\ pc' = "done"
    /\ UNCHANGED <<op, config, text, clock, previous>>
    /\ UNCHANGED appVars

CallParseHorseData_legacy ==
    /\ pc = "ready" /\ op = "parseHorseData_legacy"
    /\ result' = parseHorseData_legacy(text, config)
    /\ pc' = "done"
    /\ UNCHANGED <<op, config, text, clock, previous>>
    /\ UNCHANGED appVars

InitForm == InitFor(FormOps)

NextForm == CallParseHorseData \/ CallParseHorseData_legacy

SpecForm == InitForm /\ [][NextForm]_vars

(* parseHorseDataInternal on a single fragment: the marker line, the      *)
(* tipster's mark, and the lines of a horse's cell in any order             *)
BlockLines == {PedigreeLine, NameLine, GacLine, JockeyLine, WeightLine,
               TrainerLine, OddsPopLine}

BlockTexts ==
    {<<MarkerLine(1), MarkLine>> \o ls :
        ls \in SeqsOf(BlockLines, 0, MaxBlockLines)}

InitBlock ==
    /\ pc = "ready"
    /\ op = "parseHorseDataInternal"
    /\ config \in ConfigsFor(op)
    /\ text \in BlockTexts
    /\ result = NoResult
    /\ clock = 0
    /\ previous = NoCall
    /\ AppIdle

NextBlock == CallParseHorseDataInternal

SpecBlock == InitBlock /\ [][NextBlock]_vars

(* parseOdds of the layout-keyed parser, iteration by iteration: result    *)
(* holds the loop variables while pc = "scanning".                          *)

\* the lines the loop runs over: text.split('\n').filter(line => line.trim())
ScanLinesOf(t) == SelectSeq(t, NonBlank)

\* the index of the next iteration: i++ of the for statement, and the i++
\* that skips the data line when it matched
NextIndex_noSkip(i, matched) == i + 1

\* NextIndex that goes back over the marker line after a match
NextIndex_stuck(i, matched) == IF matched THEN i ELSE i + 1

NextIndex(i, matched) == IF matched THEN i + 2 ELSE i + 1

\* one iteration of the for loop
OddsStep(lines, st) ==
    LET i == st.i
        line == lines[i]
    IN  IF IsSectionLine(line, "Tansho")
        THEN [st EXCEPT !.i = i + 1, !.currentSection = "win"]
        ELSE IF IsSectionLine(line, "Fukusho")
        THEN [st EXCEPT !.i = i + 1, !.currentSection = "place"]
        ELSE IF IsHeaderLine(line)
        THEN [st EXCEPT !.i = i + 1]
        ELSE IF IsMarkerLine(line) /\ i + 1 <= Len(lines)
        THEN LET horseNumber == line[2][1].n
                 nextLine == lines[i + 1]
             IN  IF st.currentSection = "win" /\ MatchesWin(nextLine)
                 THEN [st EXCEPT !.i = NextIndex(i, TRUE),
                                 !.win = MapSet(@, horseNumber, WinValue(nextLine))]
                 ELSE IF st.currentSection = "place" /\ MatchesPlace(nextLine)
                 THEN [st EXCEPT !.i = NextIndex(i, TRUE),
                                 !.place = MapSet(@, horseNumber,
                                                  PlaceValue(nextLine))]
                 ELSE [st EXCEPT !.i = NextIndex(i, FALSE)]
        ELSE [st EXCEPT !.i = i + 1]

\* lines of an odds page: section names, a header, a marker, data lines
ScanLines == {TanshoLine, FukushoLine, OddsHeaderLine, MarkerLine(1),
              WinLine(21), PlaceLine(16, 19)}

ScanTexts == SeqsOf(ScanLines, 1, MaxOddsLines)

BeginParseOdds ==
    /\ pc = "ready" /\ op = "parseOdds"
    /\ result' = [i |-> 1, currentSection |-> "",
                  win |-> EmptyMap, place |-> EmptyMap]
    /\ pc' = "scanning"
    /\ UNCHANGED <<op, config, text, clock, previous>>
    /\ UNCHANGED appVars

StepParseOdds ==
    /\ pc = "scanning" /\ op = "parseOdds"
    /\ result.i <= Len(ScanLinesOf(text))
    /\ result' = OddsStep(ScanLinesOf(text), result)
    /\ UNCHANGED <<pc, op, config, text, clock, previous>>
    /\ UNCHANGED appVars

\* the loop has ended: the maps are combined and the result returned
EndParseOdds ==
    /\ pc = "scanning" /\ op = "parseOdds"
    /\ result.i > Len(ScanLinesOf(text))
    /\ result' = StartedWith(FreshLists, parseOdds(text, config))
    /\ pc' = "done"
    /\ UNCHANGED <<op, config, text, clock, previous>>
    /\ UNCHANGED appVars

InitScan ==
    /\ pc = "ready"
    /\ op = "parseOdds"
    /\ config = DefaultConfig
    /\ text \in ScanTexts
    /\ result = NoResult
    /\ clock = 0
    /\ previous = NoCall
    /\ AppIdle

NextScan == BeginParseOdds \/ StepParseOdds \/ EndParseOdds

SpecScan == InitScan /\ [][NextScan]_vars

(* The line loops of splitIntoHorseBlocks and parseHorseBlock, iteration  *)
(* by iteration, as the scan of parseOdds above.                            *)

\* one iteration of the loop of splitIntoHorseBlocks
SplitStep(lines, st) ==
    LET i == st.i
    IN  IF IsMarkerLine(lines[i])
        THEN [st EXCEPT
                 !.i = i + 1,
                 !.blocks = IF TrimBlock(st.currentBlock) # <<>> /\ st.inHorseData
                            THEN Append(st.blocks, TrimBlock(st.currentBlock))
                            ELSE st.blocks,
                 !.currentBlock = IF i + 1 <= Len(lines)
                                  THEN <<lines[i], lines[i + 1]>> ELSE <<lines[i]>>,
                 !.inHorseData = TRUE]
        ELSE IF st.inHorseData
        THEN [st EXCEPT !.i = i + 1, !.currentBlock = Append(@, lines[i])]
        ELSE [st EXCEPT !.i = i + 1]

\* one iteration of the loop of parseHorseBlock that looks for the jockey;
\* left says that the loop was left with break
JockeyStep(lines, st) ==
    LET i == st.i
        line == lines[i]
    IN  IF GenderAgeColorAt(line) # 0
        THEN [st EXCEPT !.i = i + 1, !.foundGenderAge = TRUE]
        ELSE IF line = <<>> /\ st.foundGenderAge
        THEN [st EXCEPT !.i = i + 1]
        ELSE IF st.foundGenderAge /\ IsJockeyLine(line)
        THEN [st EXCEPT !.jockeyName = line, !.left = TRUE]
        ELSE [st EXCEPT !.i = i + 1]

LoopOps == {"parseOdds", "splitIntoHorseBlocks", "parseHorseBlock"}

\* the lines a loop runs over
LoopLines(o, t) == IF o = "parseOdds" THEN ScanLinesOf(t) ELSE t

LoopTexts(o) ==
    IF o = "parseOdds"
    THEN SeqsOf({TanshoLine, MarkerLine(1), WinLine(21)}, 1, MaxOddsLines)
    ELSE IF o = "splitIntoHorseBlocks"
    THEN SeqsOf({MarkerLine(1), NameLine, EmptyLine}, 1, MaxHorseLines)
    ELSE {<<MarkerLine(1), MarkLine, NameLine>> \o ls :
             ls \in SeqsOf({GacLine, JockeyLine, EmptyLine}, 0,
                            MaxBlockLines - 1)}

BeginSplitIntoHorseBlocks ==
    /\ pc = "ready" /\ op = "splitIntoHorseBlocks"
    /\ result' = [i |-> 1, blocks |-> <<>>, currentBlock |-> <<>>,
                  inHorseData |-> FALSE, left |-> FALSE]
    /\ pc' = "scanning"
    /\ UNCHANGED <<op, config, text, clock, previous>>
    /\ UNCHANGED appVars

StepSplitIntoHorseBlocks ==
    /\ pc = "scanning" /\ op = "splitIntoHorseBlocks"
    /\ result.i <= Len(text)
    /\ result' = SplitStep(text, result)
    /\ UNCHANGED <<pc, op, config, text, clock, previous>>
    /\ UNCHANGED appVars

\* the last block is saved and the blocks are returned
EndSplitIntoHorseBlocks ==
    /\ pc = "scanning" /\ op = "splitIntoHorseBlocks"
    /\ result.i > Len(text)
    /\ result' =
          [blocks |-> IF TrimBlock(result.currentBlock) # <<>>
                         /\ result.inHorseData
                      THEN Append(result.blocks, TrimBlock(result.currentBlock))
                      ELSE result.blocks]
    /\ pc' = "done"
    /\ UNCHANGED <<op, config, text, clock, previous>>
    /\ UNCHANGED appVars

\* parseHorseBlock up to its jockey loop: it throws before the loop, or
\* enters it
BeginParseHorseBlock ==
    /\ pc = "ready" /\ op = "parseHorseBlock"
    /\ IF parseHorseBlock(text, 1).ok
       THEN /\ result' = [i |-> 1, foundGenderAge |-> FALSE,
                          jockeyName |-> <<>>, left |-> FALSE]
            /\ pc' = "scanning"
       ELSE /\ result' = parseHorseBlock(text, 1)
            /\ pc' = "done"
    /\ UNCHANGED <<op, config, text, clock, previous>>
    /\ UNCHANGED appVars

StepParseHorseBlock ==
    /\ pc = "scanning" /\ op = "parseHorseBlock"
    /\ result.i <= Len(text) /\ ~result.left
    /\ result' = JockeyStep(text, result)
    /\ UNCHANGED <<pc, op, config, text, clock, previous>>
    /\ UNCHANGED appVars

\* the loop is over: the trainer is looked up and the record returned
EndParseHorseBlock ==
    /\ pc = "scanning" /\ op = "parseHorseBlock"
    /\ result.i > Len(text) \/ result.left
    /\ result' = parseHorseBlock(text, 1)
    /\ pc' = "done"
    /\ UNCHANGED <<op, config, text, clock, previous>>
    /\ UNCHANGED appVars

InitLoops ==
    /\ pc = "ready"
    /\ op \in LoopOps
    /\ config = DefaultConfig
    /\ text \in LoopTexts(op)
    /\ result = NoResult
    /\ clock = 0
    /\ previous = NoCall
    /\ AppIdle

NextLoops ==
    \/ BeginParseOdds \/ StepParseOdds \/ EndParseOdds
    \/ BeginSplitIntoHorseBlocks \/ StepSplitIntoHorseBlocks
    \/ EndSplitIntoHorseBlocks
    \/ BeginParseHorseBlock \/ StepParseHorseBlock \/ EndParseHorseBlock

\* a call, once made, runs on until it returns
LiveLoops == InitLoops /\ [][NextLoops]_vars /\ WF_vars(NextLoops)

\* the segmentation step of parseHorseDataInternal on its own
CallSplitIntoHorseBlocks ==
    /\ pc = "ready" /\ op = "splitIntoHorseBlocks"
    /\ result' = splitIntoHorseBlocks(text)
    /\ pc' = "done"
    /\ UNCHANGED <<op, config, text, clock, previous>>
    /\ UNCHANGED appVars

InitSplit == InitFor({"splitIntoHorseBlocks"})

NextSplit == CallSplitIntoHorseBlocks

SpecSplit == InitSplit /\ [][NextSplit]_vars

(* every call of an extractor that returns a ParseResult *)
Init == InitFor(RaceOps \cup HorseOps \cup OddsOps)

Next ==
    \/ CallParseRaceInfo_legacy
    \/ CallParseRaceInfo
    \/ CallParseHorseDataInternal
    \/ CallParseHorseDataInternal_legacy
    \/ CallParseOdds
    \/ CallParseOdds_legacy

Spec == Init /\ [][Next]_vars

(* a session: one parser instance, called again and again *)
SessionOps == RaceOps \cup HorseOps \cup OddsOps

LegacyOps == {"parseRaceInfo_legacy", "parseHorseDataInternal_legacy",
              "parseOdds_legacy"}

\* both operations are methods of the same class
SameParser(o1, o2) == (o1 \in LegacyOps) = (o2 \in LegacyOps)

SessionConfigs ==
    {[DefaultConfig EXCEPT !.strictMode = b, !.skipInvalidHorses = k] :
        b \in BOOLEAN, k \in BOOLEAN}

\* a header in the site's layout, "TokyoKeibajo Dai11R Shiba2400m", and a
\* text without any field
HeaderText == <<TitleLine, DetailsLine, MeetingLine>>
HeaderText_legacy ==
    << << <<A("venue", "Tokyo", 0), A("txt", "Keibajo", 0)>>,
          <<A("txt", "Dai", 0), A("raceNo", "", 11)>>,
          <<A("dist", "Shiba", 2400)>> >> >>

SessionTexts(o) ==
    IF o \in RaceOps THEN {HeaderText, HeaderText_legacy, <<TitleLine>>}
    ELSE IF o \in HorseOps
    THEN {FullFragment(1), FullFragment(1) \o NoNameFragment(2),
          <<HorseLine_legacy(1), InvalidHorseLine>>}
    ELSE {<<TanshoLine, MarkerLine(1), WinLine(21)>>,
          <<OddsLine_legacy, InvalidOddsLine>>}

\* the caller reads the result and makes the next call on the same instance
NewCall ==
    /\ pc = "done" /\ op \in SessionOps
    /\ previous' = [op |-> op, text |-> text, result |-> result]
    /\ \E o \in SessionOps :
          /\ SameParser(o, op)
          /\ op' = o
          /\ text' \in SessionTexts(o)
    /\ result' = NoResult
    /\ pc' = "ready"
    /\ UNCHANGED <<config, clock>>
    /\ UNCHANGED appVars

InitSession ==
    /\ pc = "ready"
    /\ op \in SessionOps
    /\ config \in SessionConfigs
    /\ text \in SessionTexts(op)
    /\ result = NoResult
    /\ clock = 0
    /\ previous = NoCall
    /\ AppIdle

NextSession == Next \/ NewCall

SpecSession == InitSession /\ [][NextSession]_vars

(* parseRaceInfo of the delimiter-keyed parser on a header followed by    *)
(* several track-condition and class words                                  *)
MatchWords ==
    { <<A("cond", "Ryo", 0)>>, <<A("cond", "Omo", 0)>>, <<A("cond", "Furyo", 0)>>,
      <<A("class", "G1", 0)>>, <<A("class", "Open", 0)>> }

MatchTexts ==
    {<<HeaderText_legacy[1] \o ws>> : ws \in SeqsOf(MatchWords, 0, MaxMatchWords)}

InitMatch ==
    /\ pc = "ready"
    /\ op = "parseRaceInfo_legacy"
    /\ config \in ConfigsFor(op)
    /\ text \in MatchTexts
    /\ result = NoResult
    /\ clock = 0
    /\ previous = NoCall
    /\ AppIdle

NextMatch == CallParseRaceInfo_legacy

SpecMatch == InitMatch /\ [][NextMatch]_vars

---------------------------------------------------------------------------
(* ParseErrorReporter.  An error carries, besides the fields above, rawLen, *)
(* the length of its rawData (0: no rawData, or the empty string).  A      *)
(* summary is "success" or its parts, each a count of errors or warnings.  *)
(* The text report is a sequence of lines [k, s, n, e]: k the kind of line, *)
(* s its text, n its number, e whether the ellipsis follows.               *)

ReportError(type, field, message, lineNumber, rawLen) ==
    [type |-> type, field |-> field, message |-> message,
     lineNumber |-> lineNumber, rawLen |-> rawLen]

\* results.forEach(result => { allErrors.push(...); allWarnings.push(...) })
RECURSIVE CollectErrors(_)
CollectErrors(results) ==
    IF results = <<>> THEN <<>>
    ELSE Head(results).errors \o CollectErrors(Tail(results))

RECURSIVE CollectWarnings(_)
CollectWarnings(results) ==
    IF results = <<>> THEN <<>>
    ELSE Head(results).warnings \o CollectWarnings(Tail(results))

\* one step of the reduce: groups[type] is created when missing, then the
\* error is pushed to it.  groups lists the entries of the object in the
\* order their keys were created.
PushToGroup_reset(groups, error) ==
    LET I == {i \in 1..Len(groups) : groups[i].type = error.type}
    IN  IF I = {}
        THEN Append(groups, [type |-> error.type, errors |-> <<error>>])
        ELSE [groups EXCEPT ![Min(I)].errors = <<error>>]

PushToGroup(groups, error) ==
    LET I == {i \in 1..Len(groups) : groups[i].type = error.type}
    IN  IF I = {}
        THEN Append(groups, [type |-> error.type, errors |-> <<error>>])
        ELSE [groups EXCEPT ![Min(I)].errors = Append(@, error)]

RECURSIVE GroupLoop(_, _)
GroupLoop(errors, groups) ==
    IF errors = <<>> THEN groups
    ELSE GroupLoop(Tail(errors), PushToGroup(groups, Head(errors)))

groupErrorsByType(errors) == GroupLoop(errors, <<>>)

generateSuggestions(errors) ==
    LET errorTypes == {errors[i].type : i \in 1..Len(errors)}
        errorFields == {errors[i].field : i \in 1..Len(errors)}
        When(b, suggestions) == IF b THEN suggestions ELSE <<>>
    IN  When("RACE_INFO" \in errorTypes,
             When("venue" \in errorFields, <<"checkVenue">>)
             \o When("distance" \in errorFields, <<"checkDistance">>)
             \o When("raceNumber" \in errorFields, <<"checkRaceNumber">>)
             \o When("date" \in errorFields, <<"checkDate">>))
        \o When("HORSE_DATA" \in errorTypes,
                <<"checkHorseFormat", "checkHorseSpaces", "checkGender">>)
        \o When("ODDS_DATA" \in errorTypes,
                <<"checkOddsFormat", "checkPlaceOdds">>)
        \o When("VALIDATION" \in errorTypes,
                <<"checkValueRange", "checkRequired">>)
        \o When(Len(errors) > 0, <<"checkLatestFormat", "checkBlankLines">>)

SummaryPart(what, n) == [what |-> what, n |-> n]

SuccessSummary == <<SummaryPart("success", 0)>>

generateSummary_errorsOnly(errors, warnings) ==
    IF Len(errors) = 0
    THEN SuccessSummary
    ELSE (IF Len(errors) > 0
          THEN <<SummaryPart("errors", Len(errors))>> ELSE <<>>)
         \o (IF Len(warnings) > 0
             THEN <<SummaryPart("warnings", Len(warnings))>> ELSE <<>>)

generateSummary(errors, warnings) ==
    IF Len(errors) = 0 /\ Len(warnings) = 0
    THEN SuccessSummary
    ELSE (IF Len(errors) > 0
          THEN <<SummaryPart("errors", Len(errors))>> ELSE <<>>)
         \o (IF Len(warnings) > 0
             THEN <<SummaryPart("warnings", Len(warnings))>> ELSE <<>>)

\* now is the value new Date() yields at the time of the call
generateReport(results, now) ==
    LET allErrors == CollectErrors(results)
        allWarnings == CollectWarnings(results)
    IN  [summary |-> generateSummary(allErrors, allWarnings),
         totalErrors |-> Len(allErrors),
         totalWarnings |-> Len(allWarnings),
         errorsByType |-> groupErrorsByType(allErrors),
         suggestions |-> generateSuggestions(allErrors),
         timestamp |-> now]

TextLine(k, s, n, e) == [k |-> k, s |-> s, n |-> n, e |-> e]

\* the longest raw snippet shown
SnippetLength == 50

\* rawData.substring(0, 50) and the ellipsis
Snippet_inclusive(rawLen) ==
    TextLine("rawData", "", IF rawLen < SnippetLength THEN rawLen ELSE SnippetLength,
             rawLen >= SnippetLength)

Snippet(rawLen) ==
    TextLine("rawData", "", IF rawLen < SnippetLength THEN rawLen ELSE SnippetLength,
             rawLen > SnippetLength)

\* the lines of one error of a group
ErrorLines(error, index) ==
    <<TextLine("item", error.message, index, FALSE)>>
    \o (IF error.field # ""
        THEN <<TextLine("field", error.field, 0, FALSE)>> ELSE <<>>)
    \o (IF error.lineNumber # 0
        THEN <<TextLine("lineNumber", "", error.lineNumber, FALSE)>> ELSE <<>>)
    \o (IF error.rawLen # 0 THEN <<Snippet(error.rawLen)>> ELSE <<>>)

GroupLines(group) ==
    <<TextLine("group", group.type, Len(group.errors), FALSE)>>
    \o Concat([i \in 1..Len(group.errors) |-> ErrorLines(group.errors[i], i)])

formatReportAsText(report) ==
    << TextLine("title", "", 0, FALSE),
       TextLine("generated", "", report.timestamp, FALSE),
       TextLine("blank", "", 0, FALSE),
       TextLine("summary", "", 0, FALSE),
       TextLine("errorCount", "", report.totalErrors, FALSE),
       TextLine("warningCount", "", report.totalWarnings, FALSE),
       TextLine("blank", "", 0, FALSE) >>
    \o (IF report.totalErrors > 0
        THEN <<TextLine("errorDetails", "", 0, FALSE)>>
             \o Concat([i \in 1..Len(report.errorsByType) |->
                          GroupLines(report.errorsByType[i])])
        ELSE <<>>)
    \o (IF Len(report.suggestions) > 0
        THEN <<TextLine("suggestions", "", 0, FALSE)>>
             \o [i \in 1..Len(report.suggestions) |->
                   TextLine("suggestion", report.suggestions[i], i, FALSE)]
        ELSE <<>>)

---------------------------------------------------------------------------
(* Reporter inputs *)

\* most results in the list passed to generateReport
MaxResults == 2

\* errors as the extractors and validation build them: with and without a
\* line number, with raw data up to, at and over the snippet length
SampleErrors ==
    { ReportError("RACE_INFO", "venue", "noVenue", 1, 17),
      ReportError("RACE_INFO", "distance", "noDistance", 0, 0),
      ReportError("RACE_INFO", "raceNumber", "noRaceNumber", 0, SnippetLength),
      ReportError("RACE_INFO", "date", "noDate", 0, SnippetLength + 1),
      ReportError("RACE_INFO", "title", "noTitle", 0, SnippetLength + 1),
      ReportError("HORSE_DATA", "horseLine", "badHorseLine", 5, 0),
      ReportError("ODDS_DATA", "oddsLine", "badOddsLine", 2, SnippetLength + 1),
      ReportError("VALIDATION", "general", "invalid", 0, 0),
      ReportError("VALIDATION", "venue", "invalidVenue", 0, 0) }

SampleWarnings == <<Warning("warning", 1), Warning("warning", 2)>>

\* results without diagnostics, with warnings only, with one error, and
\* the two results of the reporter's own test
ReportResults ==
    {Returned(TRUE, NoData, <<>>, SubSeq(SampleWarnings, 1, n)) : n \in 0..2}
    \cup {Failure(<<e>>, SubSeq(SampleWarnings, 1, n)) :
              e \in SampleErrors, n \in 0..1}
    \cup {Failure(<<ReportError("RACE_INFO", "venue", "noVenue", 0, 12),
                    ReportError("HORSE_DATA", "horseLine", "badHorseLine", 5, 0)>>,
                  SubSeq(SampleWarnings, 1, 1)),
          Failure(<<ReportError("RACE_INFO", "distance", "noDistance", 0, 0)>>,
                  SubSeq(SampleWarnings, 2, 2))}

ReportInputs == SeqsOf(ReportResults, 0, MaxResults)

ReportOps == {"generateReport", "formatReportAsText"}

CallGenerateReport ==
    /\ pc = "ready" /\ op = "generateReport"
    /\ \E now \in Times :
          /\ now >= clock
          /\ clock' = now
          /\ result' = generateReport(text, now)
    /\ pc' = "done"
    /\ UNCHANGED <<op, config, text, previous>>
    /\ UNCHANGED appVars

\* the caller passes the report it got to formatReportAsText
CallFormatReportAsText ==
    /\ pc = "done" /\ op = "generateReport"
    /\ previous' = [op |-> op, text |-> text, result |-> result]
    /\ op' = "formatReportAsText"
    /\ text' = result
    /\ result' = formatReportAsText(result)
    /\ UNCHANGED <<pc, config, clock>>
    /\ UNCHANGED appVars

InitReport ==
    /\ pc = "ready"
    /\ op = "generateReport"
    /\ config = DefaultConfig
    /\ text \in ReportInputs
    /\ result = NoResult
    /\ clock = 0
    /\ previous = NoCall
    /\ AppIdle

NextReport == CallGenerateReport \/ CallFormatReportAsText

SpecReport == InitReport /\ [][NextReport]_vars

---------------------------------------------------------------------------
(* The properties *)

Done(o) == pc = "done" /\ op = o

ErrorFields(r) == {r.errors[i].field : i \in DOMAIN r.errors}

WarningTexts(r) == {r.warnings[i].msg : i \in DOMAIN r.warnings}

\* does some atom of the text t match the pattern P
Has(t, P(_)) == \E x \in Range(TagText(t)) : P(x)

\* C1 as stated: for every extractor call, success is true iff the errors
\* list is empty.
C1_SuccessIffNoErrors ==
    pc = "done" => (result.success <=> result.errors = <<>>)

\* C1, amended: success is true iff the errors list is empty for
\* parseHorseDataInternal, for parseOdds, for the layout-keyed parseRaceInfo
\* and for the delimiter-keyed parseRaceInfo in strict mode; for the
\* delimiter-keyed parseRaceInfo with strictMode off, success is true iff no
\* error is on venue, raceNumber or distance.  Warnings play no part.
C1_SuccessFollowsErrors ==
    pc = "done" =>
        (result.success <=>
            IF op = "parseRaceInfo_legacy" /\ ~config.strictMode
            THEN ErrorFields(result) \cap {"venue", "raceNumber", "distance"} = {}
            ELSE result.errors = <<>>)

\* a lenient delimiter-keyed call that succeeds with errors and warnings
C1_Witness ==
    /\ Done("parseRaceInfo_legacy") /\ ~config.strictMode
    /\ result.success /\ result.errors # <<>> /\ result.warnings # <<>>

\* C2: in parseRaceInfo, strict mode turns any error into success = false
\* and no RaceInfo; with strictMode off the call fails (and returns no
\* RaceInfo) exactly when an error is on a critical field, and an error on
\* another field (a missing date) is still in the errors list.
C2_DecisionRule ==
    pc = "done" /\ op \in RaceOps =>
        LET critical == IF op = "parseRaceInfo_legacy"
                        THEN {"venue", "raceNumber", "distance"}
                        ELSE {"title", "raceDetails", "meetingInfo"}
        IN  /\ config.strictMode /\ result.errors # <<>>
                => ~result.success /\ ~result.hasData
            /\ ~config.strictMode
                => /\ ~result.success <=> ErrorFields(result) \cap critical # {}
                   /\ result.hasData <=> result.success
            /\ op = "parseRaceInfo_legacy" /\ ~Has(text, IsDate)
                => "date" \in ErrorFields(result)

\* a lenient call that returns a RaceInfo although the date was not found
C2_Witness ==
    /\ Done("parseRaceInfo_legacy") /\ ~config.strictMode
    /\ result.success /\ result.hasData
    /\ ErrorFields(result) = {"date"}

\* does the text hold an atom of kind k
HasKind(t, k) == \E x \in Range(TagText(t)) : x.a.k = k

\* a race-number marker that ends its word and has a word after it
HasTitleAfterMarker(t) ==
    LET xs == TagText(t)
    IN  \E i \in 1..(Len(xs) - 1) : xs[i].a.k = "raceNo" /\ xs[i].last

\* a line with a post time, then a distance, then a track condition
HasDetailsLine(t) ==
    \E ln \in 1..Len(t) :
        LET xs == TagLine(t[ln], ln)
        IN  \E i, j, k \in 1..Len(xs) :
                /\ i < j /\ j < k
                /\ xs[i].a.k = "post" /\ xs[j].a.k = "dist"
                /\ xs[k].a.k = "track"

\* a line with a meeting number, a venue, a day and then a class
HasMeetingLine(t) ==
    \E ln \in 1..Len(t) :
        LET xs == TagLine(t[ln], ln)
        IN  \E i, c \in 1..Len(xs) :
                /\ i + 2 < c
                /\ xs[i].a.k = "kai" /\ xs[i + 1].a.k = "venue"
                /\ xs[i + 2].a.k = "day" /\ xs[c].a.k = "class"

\* the three things C3 asks of a block
HasVenueDistanceNumber(t) ==
    HasKind(t, "venue") /\ HasKind(t, "dist") /\ HasKind(t, "raceNo")

\* C3 as stated: a block with a venue, a distance and a race-number marker
\* parses successfully with no errors, whatever else it holds.
C3_VenueDistanceNumberSuffice ==
    pc = "done" /\ op \in RaceOps /\ HasVenueDistanceNumber(text)
        => result.success /\ result.errors = <<>>

\* C3, amended: the delimiter-keyed parseRaceInfo succeeds with no errors on
\* every block with a venue, a distance, a race-number marker followed by a
\* title word, and a date; when only the title word or the date is missing it
\* reports exactly those as errors and succeeds only with strictMode off.
\* The layout-keyed parseRaceInfo succeeds with no errors on every block with
\* a non-empty first line, a details line and a meeting line.
C3_CompleteBlockSucceeds ==
    /\ Done("parseRaceInfo_legacy") /\ HasVenueDistanceNumber(text)
        => LET missing ==
                   (IF HasTitleAfterMarker(text) THEN {} ELSE {"title"})
                   \cup (IF HasKind(text, "date") THEN {} ELSE {"date"})
           IN  /\ ErrorFields(result) = missing
               /\ result.success <=> (missing = {} \/ ~config.strictMode)
    /\ Done("parseRaceInfo")
         /\ text[1] # <<>> /\ HasDetailsLine(text) /\ HasMeetingLine(text)
        => result.success /\ result.errors = <<>>

\* a strict delimiter-keyed call on a complete block
C3_Witness ==
    /\ Done("parseRaceInfo_legacy") /\ config.strictMode
    /\ HasVenueDistanceNumber(text)
    /\ HasTitleAfterMarker(text) /\ HasKind(text, "date")
    /\ result.success /\ result.errors = <<>>

\* C4 as stated: without a race-number marker parseRaceInfo reports a
\* warning and no error on the race number, and uses 11.
C4_MissingNumberOnlyWarns ==
    pc = "done" /\ op \in RaceOps /\ ~HasKind(text, "raceNo")
        => /\ "raceNumber" \notin ErrorFields(result)
           /\ "raceNumberDefault" \in WarningTexts(result)
           /\ result.hasData => result.data.raceNumber = 11

\* C4, amended: without a race-number marker the layout-keyed parseRaceInfo
\* uses 11 and adds a warning and no error, so that a block that lacks
\* nothing else still parses; the delimiter-keyed parseRaceInfo reports an
\* error on raceNumber and fails.
C4_MissingNumberByParser ==
    /\ Done("parseRaceInfo") /\ ~HasKind(text, "raceNo")
        => /\ "raceNumber" \notin ErrorFields(result)
           /\ "raceNumberDefault" \in WarningTexts(result)
           /\ result.hasData => result.data.raceNumber = 11
           /\ text[1] # <<>> /\ HasDetailsLine(text) /\ HasMeetingLine(text)
                => result.success /\ result.hasData
    /\ Done("parseRaceInfo_legacy") /\ ~HasKind(text, "raceNo")
        => /\ "raceNumber" \in ErrorFields(result)
           /\ "raceNumberDefault" \notin WarningTexts(result)
           /\ ~result.success /\ ~result.hasData

\* a layout-keyed call that succeeds with race number 11 and the warning
C4_Witness ==
    /\ Done("parseRaceInfo") /\ ~HasKind(text, "raceNo")
    /\ result.success /\ result.data.raceNumber = 11
    /\ result.warnings = <<Warning("raceNumberDefault", 0)>>

\* C5 as stated: a missing track condition, class or date is never an
\* error in parseRaceInfo.
C5_SoftFieldsNeverError ==
    pc = "done" /\ op \in RaceOps
        => /\ ~Has(text, IsCondition)
               => ErrorFields(result) \cap {"condition", "raceDetails"} = {}
           /\ ~Has(text, IsClass)
               => ErrorFields(result) \cap {"class", "meetingInfo"} = {}
           /\ ~Has(text, IsDate) => "date" \notin ErrorFields(result)

\* C5, amended: in the delimiter-keyed parseRaceInfo a missing track
\* condition or class is a warning with the default (Firm, Open) and no
\* error, and a result without errors is successful in both modes; a missing
\* date is an error on date, which fails the call in strict mode and
\* otherwise leaves the current time as the date.  In the layout-keyed
\* parseRaceInfo a missing track condition or class is an error on
\* raceDetails or meetingInfo and fails the call; the date is never read.
C5_SoftFieldsByParser ==
    /\ Done("parseRaceInfo_legacy")
        => /\ ErrorFields(result) \cap {"condition", "class"} = {}
           /\ result.errors = <<>> => result.success
           /\ ~Has(text, IsCondition)
                => /\ "conditionDefault" \in WarningTexts(result)
                   /\ result.hasData => result.data.condition = "FIRM"
           /\ ~Has(text, IsClass)
                => /\ "classDefault" \in WarningTexts(result)
                   /\ result.hasData => result.data.raceClass = "OPEN"
           /\ ~Has(text, IsDate)
                => /\ "date" \in ErrorFields(result)
                   /\ config.strictMode => ~result.success
                   /\ result.hasData => result.data.date.src = "now"
    /\ Done("parseRaceInfo")
        => /\ ~HasKind(text, "track")
                => "raceDetails" \in ErrorFields(result) /\ ~result.success
           /\ ~HasKind(text, "class")
                => "meetingInfo" \in ErrorFields(result) /\ ~result.success
           /\ result.hasData => result.data.date.src = "now"

\* a strict delimiter-keyed call that succeeds on both defaults
C5_Witness ==
    /\ Done("parseRaceInfo_legacy") /\ config.strictMode
    /\ ~Has(text, IsCondition) /\ ~Has(text, IsClass)
    /\ result.success
    /\ result.data.condition = "FIRM" /\ result.data.raceClass = "OPEN"
    /\ Len(result.warnings) = 2

\* the fragments of a roster text: the marker lines for the layout-keyed
\* parser, the non-blank lines for the delimiter-keyed one
FragmentCount(o, t) ==
    IF o = "parseHorseDataInternal"
    THEN Cardinality({i \in 1..Len(t) : IsMarkerLine(t[i])})
    ELSE Cardinality({i \in 1..Len(t) : t[i] # <<>>})

\* the diagnostics of single fragments, by the fragment they name
FragmentErrors(r) ==
    {i \in DOMAIN r.errors : r.errors[i].field \in {"horseBlock", "horseLine"}}

FragmentWarnings(r) ==
    {i \in DOMAIN r.warnings : r.warnings[i].msg # "tooManyHorses"}

ErrorFragments(r) == {r.errors[i].lineNumber : i \in FragmentErrors(r)}

WarningFragments(r) == {r.warnings[i].n : i \in FragmentWarnings(r)}

\* which fragments of the text parse, one by one
FragmentOk(o, t) ==
    IF o = "parseHorseDataInternal"
    THEN LET bs == splitIntoHorseBlocks(t)
         IN  [i \in 1..Len(bs) |-> parseHorseBlock(bs[i], i).ok]
    ELSE LET ls == SelectSeq(t, NonBlank)
         IN  [i \in 1..Len(ls) |-> parseHorseLine(ls[i], i).ok]

Passed(o, t) == LET ok == FragmentOk(o, t) IN {i \in DOMAIN ok : ok[i]}

Failed(o, t) == LET ok == FragmentOk(o, t) IN {i \in DOMAIN ok : ~ok[i]}

\* C6: the records returned plus the per-fragment diagnostics (errors, or
\* warnings when fragments are skipped) are as many as the fragments of the
\* text, and no two diagnostics name the same fragment.
C6_EveryFragmentAccounted ==
    pc = "done" /\ op \in HorseOps =>
        /\ Len(result.data) + Cardinality(FragmentErrors(result))
              + Cardinality(FragmentWarnings(result))
           = FragmentCount(op, text)
        /\ Cardinality(ErrorFragments(result) \cup WarningFragments(result))
           = Cardinality(FragmentErrors(result))
              + Cardinality(FragmentWarnings(result))
        /\ ErrorFragments(result) \cup WarningFragments(result)
              \subseteq 1..FragmentCount(op, text)

\* three marker lines: one record and two skipped fragments
C6_Witness ==
    /\ Done("parseHorseDataInternal") /\ config.skipInvalidHorses
    /\ FragmentCount(op, text) = 3
    /\ Len(result.data) = 1 /\ Len(result.warnings) = 2

\* C7: a failed fragment is left out of the list; with skipInvalidHorses it
\* adds a warning and no error, and the roster is successful as long as one
\* fragment gave a record; without it, it adds an error and the roster is
\* unsuccessful.
C7_FragmentFailurePolicy ==
    pc = "done" /\ op \in HorseOps =>
        LET passed == Passed(op, text)
            failed == Failed(op, text)
        IN  /\ Len(result.data) = Cardinality(passed)
            /\ config.skipInvalidHorses
                 => /\ FragmentErrors(result) = {}
                    /\ WarningFragments(result) = failed
                    /\ passed # {} => result.success
            /\ ~config.skipInvalidHorses
                 => /\ FragmentWarnings(result) = {}
                    /\ ErrorFragments(result) = failed
                    /\ failed # {} => ~result.success

\* without skipping: a record is returned, another fragment failed
C7_Witness ==
    /\ Done("parseHorseDataInternal") /\ ~config.skipInvalidHorses
    /\ Passed(op, text) # {} /\ Failed(op, text) # {}
    /\ ~result.success /\ Len(result.data) >= 1
    /\ Len(result.errors) = Cardinality(Failed(op, text))

\* C8: with no horse the result has exactly one roster-level error and is
\* unsuccessful, whatever skipInvalidHorses is, so a successful result holds
\* a horse; with more horses than maxHorses it has exactly one roster-level
\* warning and still every record.
C8_RosterPostConditions ==
    pc = "done" /\ op \in HorseOps =>
        LET general == {i \in DOMAIN result.errors :
                            result.errors[i].field = "general"}
            tooMany == {i \in DOMAIN result.warnings :
                            result.warnings[i].msg = "tooManyHorses"}
            parsed == Cardinality(Passed(op, text))
        IN  /\ parsed = 0 => Cardinality(general) = 1 /\ ~result.success
            /\ parsed > 0 => general = {}
            /\ result.success => Len(result.data) >= 1
            /\ parsed > config.maxHorses
                 => Cardinality(tooMany) = 1 /\ Len(result.data) = parsed
            /\ parsed <= config.maxHorses => tooMany = {}

\* two horses where maxHorses is 1
C8_Witness ==
    /\ pc = "done" /\ op \in HorseOps /\ config.maxHorses = 1
    /\ Len(result.data) = 2 /\ result.success
    /\ result.warnings = <<Warning("tooManyHorses", 0)>>

\* C9: no two records of a roster result have the same number, and a
\* parsed fragment left out as a duplicate shows as a VALIDATION diagnostic.
C9_UniqueHorseNumbers ==
    pc = "done" /\ op \in HorseOps =>
        /\ \A i, j \in DOMAIN result.data :
               i # j => result.data[i].number # result.data[j].number
        /\ Len(result.data) < Cardinality(Passed(op, text))
             => \E i \in DOMAIN result.errors :
                    result.errors[i].type = "VALIDATION"

\* the win odds of horse h as the text gives them, 0 when it gives none
\* (the delimiter-keyed parser reads every record's win odds from its line)
WinOddsRead(o, t, h) ==
    IF o = "parseOdds_legacy" THEN 1
    ELSE IF h \in DOMAIN OddsMaps(t).win THEN OddsMaps(t).win[h] ELSE 0

\* C10: every record of parseOdds has placeOddsMax >= placeOddsMin >= 1.0,
\* and winOdds >= 1.0 when the win odds were read from the text (1.0 is 60
\* sixtieths).
C10_OddsRanges ==
    pc = "done" /\ op \in OddsOps =>
        \A i \in DOMAIN result.data :
            LET r == result.data[i]
            IN  /\ r.placeOddsMax >= r.placeOddsMin
                /\ r.placeOddsMin >= 60
                /\ WinOddsRead(op, text, r.horseNumber) # 0 => r.winOdds >= 60

\* the horse numbers of the records of an odds result
OddsNumbers(r) == {r.data[i].horseNumber : i \in DOMAIN r.data}

\* C11: the records of parseOdds are for exactly the horse numbers in the win
\* map or the place map; with win odds and no place odds the place range is
\* winOdds/3 to winOdds/2, and with place odds and no win odds winOdds is
\* defaultOdds and the place range is the one read.
C11_UnionAndFallbacks ==
    Done("parseOdds") =>
        LET maps == OddsMaps(text)
        IN  /\ OddsNumbers(result) = DOMAIN maps.win \cup DOMAIN maps.place
            /\ \A i \in DOMAIN result.data :
                   LET r == result.data[i]
                       h == r.horseNumber
                   IN  /\ h \in DOMAIN maps.win \ DOMAIN maps.place
                            => /\ 3 * r.placeOddsMin = r.winOdds
                               /\ 2 * r.placeOddsMax = r.winOdds
                       /\ h \in DOMAIN maps.place \ DOMAIN maps.win
                            => /\ r.winOdds = 6 * config.defaultOdds
                               /\ r.placeOddsMin = maps.place[h].min
                               /\ r.placeOddsMax = maps.place[h].max

ReadableNumbers(t) ==
    LET ls == SelectSeq(SelectSeq(t, NonBlank), MatchesSimpleOddsLine)
    IN  [i \in 1..Len(ls) |-> ls[i][1][1].n]

HasUnparsablePair(t) ==
    LET ls == SelectSeq(t, NonBlank)
    IN  \E i \in 1..(Len(ls) - 1) :
            /\ IsMarkerLine(ls[i])
            /\ \A x \in Range(TagLine(ls[i + 1], 1)) :
                   x.a.k \notin {"int", "dec", "section", "header"}

\* C13: parseOdds returns success = true, a list and no error for every
\* text, and a marker/data pair (for the delimiter-keyed parser: a line) that
\* cannot be parsed leaves a warning.
C13_UnparsablePairsWarned ==
    pc = "done" /\ op \in OddsOps =>
        /\ result.success /\ result.hasData /\ result.errors = <<>>
        /\ op = "parseOdds" /\ HasUnparsablePair(text)
             => result.warnings # <<>>
        /\ op = "parseOdds_legacy"
             => Len(result.warnings)
                  = Len(SelectSeq(text, NonBlank)) - Len(result.data)

\* C14: no extractor throws, whatever the text: parseHorseData returns to
\* its caller like the others (which return a ParseResult from their
\* catch-all handlers).
C14_NeverThrows ==
    pc = "done" /\ op \in FormOps => ~result.thrown


\* C15: the same extractor called twice on one parser with the same text
\* returns the same output and the same diagnostics: nothing but the text
\* and the config (the clock, for one) decides any field.
C15_SameCallSameResult ==
    pc = "done" /\ previous.op = op /\ previous.text = text
        => previous.result = result

\* what the call returns on a parser no call was made on before, the clock
\* showing now
RunAlone(o, t, cfg, now) ==
    CASE o = "parseRaceInfo" -> parseRaceInfo(t, cfg, now)
      [] o = "parseRaceInfo_legacy" -> parseRaceInfo_legacy(t, cfg, now)
      [] o = "parseHorseDataInternal" -> parseHorseDataInternal(t, cfg)
      [] o = "parseHorseDataInternal_legacy" ->
            parseHorseDataInternal_legacy(t, cfg)
      [] o = "parseOdds" -> parseOdds(t, cfg)
      [] o = "parseOdds_legacy" -> parseOdds_legacy(t, cfg)

RECURSIVE CountErrors(_)
CountErrors(results) ==
    IF results = <<>> THEN 0
    ELSE Len(Head(results).errors) + CountErrors(Tail(results))

RECURSIVE CountWarnings(_)
CountWarnings(results) ==
    IF results = <<>> THEN 0
    ELSE Len(Head(results).warnings) + CountWarnings(Tail(results))

\* the errors of a list of results, result after result
ErrorsOf(results) == Concat([i \in 1..Len(results) |-> results[i].errors])

OfType(errors, type) == SelectSeq(errors, LAMBDA e : e.type = type)

RECURSIVE GroupSizes(_)
GroupSizes(groups) ==
    IF groups = <<>> THEN 0
    ELSE Len(Head(groups).errors) + GroupSizes(Tail(groups))

\* C17: generateReport counts all errors and all warnings of the results;
\* errorsByType holds one non-empty group per type that occurs, each group
\* being the errors of its type in their order, so the sizes add up to
\* totalErrors.
C17_TotalsAndPartition ==
    Done("generateReport") =>
        LET groups == result.errorsByType
            errors == ErrorsOf(text)
        IN  /\ result.totalErrors = CountErrors(text)
            /\ result.totalWarnings = CountWarnings(text)
            /\ GroupSizes(groups) = result.totalErrors
            /\ \A i \in 1..Len(groups) :
                  /\ groups[i].errors # <<>>
                  /\ groups[i].errors = OfType(errors, groups[i].type)
                  /\ \A j \in 1..Len(groups) :
                        groups[j].type = groups[i].type => j = i
            /\ \A k \in 1..Len(errors) :
                  \E i \in 1..Len(groups) : groups[i].type = errors[k].type

\* two results with errors, of two types, one of the types in both results
C17_Witness ==
    /\ Done("generateReport")
    /\ Len(text) = 2
    /\ text[1].errors # <<>> /\ text[2].errors # <<>>
    /\ Len(result.errorsByType) = 2
    /\ \E i \in 1..2 : Len(result.errorsByType[i].errors) >= 2
    /\ result.totalWarnings >= 1

\* C18: results without any diagnostic give the success summary, zero
\* totals and no suggestions; the success summary is given in that case
\* only; with warnings and no errors the summary names the number of
\* warnings (and nothing else) and there are still no suggestions.
C18_SuccessSummary ==
    Done("generateReport") =>
        LET e == CountErrors(text)
            w == CountWarnings(text)
        IN  /\ (e = 0 /\ w = 0) =>
                  /\ result.summary = SuccessSummary
                  /\ result.totalErrors = 0 /\ result.totalWarnings = 0
                  /\ result.suggestions = <<>>
            /\ result.summary = SuccessSummary => (e = 0 /\ w = 0)
            /\ (e = 0 /\ w > 0) =>
                  /\ result.summary = <<SummaryPart("warnings", w)>>
                  /\ result.suggestions = <<>>

\* several results, warnings in them and no error
C18_Witness ==
    /\ Done("generateReport")
    /\ Len(text) = 2
    /\ CountErrors(text) = 0
    /\ CountWarnings(text) >= 2

HasPair(errors, type, field) ==
    \E i \in 1..Len(errors) : errors[i].type = type /\ errors[i].field = field

HasType(errors, type) == \E i \in 1..Len(errors) : errors[i].type = type

Suggests(report, suggestion) == suggestion \in Range(report.suggestions)

\* C19: each suggestion is present exactly when its (kind, field) pair, or
\* its kind, occurs among the errors: the four race-info suggestions with a
\* RACE_INFO error of the field, the others with an error of their kind, the
\* two general ones with any error.
C19_SuggestionsByPairs ==
    Done("generateReport") =>
        LET errors == ErrorsOf(text)
        IN  /\ Suggests(result, "checkVenue") = HasPair(errors, "RACE_INFO", "venue")
            /\ Suggests(result, "checkDistance")
                  = HasPair(errors, "RACE_INFO", "distance")
            /\ Suggests(result, "checkRaceNumber")
                  = HasPair(errors, "RACE_INFO", "raceNumber")
            /\ Suggests(result, "checkDate") = HasPair(errors, "RACE_INFO", "date")
            /\ \A s \in {"checkHorseFormat", "checkHorseSpaces", "checkGender"} :
                  Suggests(result, s) = HasType(errors, "HORSE_DATA")
            /\ \A s \in {"checkOddsFormat", "checkPlaceOdds"} :
                  Suggests(result, s) = HasType(errors, "ODDS_DATA")
            /\ \A s \in {"checkValueRange", "checkRequired"} :
                  Suggests(result, s) = HasType(errors, "VALIDATION")
            /\ \A s \in {"checkLatestFormat", "checkBlankLines"} :
                  Suggests(result, s) = (errors # <<>>)

\* the errors of a report in the order the text report lists them
ListedErrors(report) ==
    Concat([i \in 1..Len(report.errorsByType) |-> report.errorsByType[i].errors])

\* the positions of the lines of kind k, in order
LinesOfKind(lines, k) ==
    SelectSeq([i \in 1..Len(lines) |-> i], LAMBDA i : lines[i].k = k)

\* C20: the text report has the error-detail section exactly when the
\* report counts an error, and the suggestions section, numbered from 1,
\* exactly when the report has suggestions; after the line of each error
\* come its field, its line number if it has one, and its raw data if it
\* has any: the first 50 characters, and the ellipsis exactly when the raw
\* data is longer than 50.
C20_TextReport ==
    Done("formatReportAsText") =>
        LET report == text
            lines == result
            items == LinesOfKind(lines, "item")
            listed == ListedErrors(report)
            numbered == LinesOfKind(lines, "suggestion")
            At(i) == IF i \in 1..Len(lines) THEN lines[i]
                     ELSE TextLine("none", "", 0, FALSE)
        IN  /\ (LinesOfKind(lines, "errorDetails") # <<>>) = (report.totalErrors > 0)
            /\ (LinesOfKind(lines, "suggestions") # <<>>)
                  = (report.suggestions # <<>>)
            /\ Len(numbered) = Len(report.suggestions)
            /\ \A j \in 1..Len(numbered) :
                  lines[numbered[j]]
                      = TextLine("suggestion", report.suggestions[j], j, FALSE)
            /\ Len(items) = Len(listed)
            /\ \A j \in 1..Len(items) :
                  LET e == listed[j]
                      p == items[j]
                      q == IF e.lineNumber # 0 THEN p + 2 ELSE p + 1
                  IN  /\ At(p + 1) = TextLine("field", e.field, 0, FALSE)
                      /\ (At(p + 2).k = "lineNumber") = (e.lineNumber # 0)
                      /\ e.lineNumber # 0 => At(p + 2).n = e.lineNumber
                      /\ (At(q + 1).k = "rawData") = (e.rawLen # 0)
                      /\ e.rawLen # 0 =>
                            /\ At(q + 1).n = (IF e.rawLen > 50 THEN 50 ELSE e.rawLen)
                            /\ At(q + 1).e = (e.rawLen > 50)

\* a report listing an error with a line number and raw data longer than
\* 50, one with raw data of exactly 50, and suggestions
C20_Witness ==
    /\ Done("formatReportAsText")
    /\ \E i \in 1..Len(result) :
          result[i].k = "lineNumber" /\ i < Len(result) /\ result[i + 1].e
    /\ \E e \in Range(ListedErrors(text)) : e.rawLen = 50
    /\ \E i \in 1..Len(result) : result[i].k = "suggestions"

\* the positions of the marker lines of a text, in order
MarkerPositions(t) ==
    SelectSeq([i \in 1..Len(t) |-> i], LAMBDA i : IsMarkerLine(t[i]))

\* C21: segmentation gives one fragment per marker line: the marker line
\* and the lines after it up to the next marker line or the end of the
\* text, each of them once; lines before the first marker line are in no
\* fragment.
C21_OneFragmentPerMarker ==
    Done("splitIntoHorseBlocks") =>
        LET ms == MarkerPositions(text)
            End(j) == IF j < Len(ms) THEN ms[j + 1] - 1 ELSE Len(text)
        IN  /\ Len(result) = Len(ms)
            /\ \A j \in 1..Len(ms) :
                  result[j] = TrimBlock(SubSeq(text, ms[j], End(j)))

Scanning == pc = "scanning" /\ pc' = "scanning"

\* the line an iteration of the scan starts on
ScanLine == ScanLinesOf(text)[result.i]

\* the line after it, when there is one
HasNextLine == result.i + 1 <= Len(ScanLinesOf(text))

NextScanLine == ScanLinesOf(text)[result.i + 1]

\* the parts of C22 about the section and the two maps
C22_SectionAndMaps ==
    /\ result.currentSection \in {"", "win", "place"}
    /\ result'.currentSection # result.currentSection =>
           IsSectionLine(ScanLine, "Tansho") \/ IsSectionLine(ScanLine, "Fukusho")
    /\ result'.win # result.win => result.currentSection = "win"
    /\ result'.place # result.place => result.currentSection = "place"
    /\ result.currentSection = "" =>
           result'.win = result.win /\ result'.place = result.place

\* an iteration starts on a marker line that has a line after it
OnMarker ==
    /\ ~IsSectionLine(ScanLine, "Tansho") /\ ~IsSectionLine(ScanLine, "Fukusho")
    /\ ~IsHeaderLine(ScanLine)
    /\ IsMarkerLine(ScanLine) /\ HasNextLine

\* C22: in the scan of parseOdds the section is none, win or place and
\* changes on a section line only; the line after a marker line is that
\* marker's data line and the scan goes past it; the win map is written in
\* the win section only, the place map in the place section only, and
\* neither outside a section.
C22_ScanSteps ==
    [][Scanning =>
          /\ C22_SectionAndMaps
          /\ OnMarker => result'.i = result.i + 2]_vars

\* the line after the marker line fits the section the scan is in
DataLineFits ==
    \/ result.currentSection = "win" /\ MatchesWin(NextScanLine)
    \/ result.currentSection = "place" /\ MatchesPlace(NextScanLine)

\* C22, amended: as above, but the line after a marker line is its data
\* line, and the scan goes past it, when it fits the section the scan is
\* in; when it does not, nothing is recorded and the scan goes on with that
\* line.
C22_ScanStepsWhenDataFits ==
    [][Scanning =>
          /\ C22_SectionAndMaps
          /\ OnMarker /\ DataLineFits =>
                /\ result'.i = result.i + 2
                /\ result.currentSection = "win" =>
                       /\ ScanLine[2][1].n \in DOMAIN result'.win
                       /\ result'.win[ScanLine[2][1].n] = WinValue(NextScanLine)
                /\ result.currentSection = "place" =>
                       /\ ScanLine[2][1].n \in DOMAIN result'.place
                       /\ result'.place[ScanLine[2][1].n]
                              = PlaceValue(NextScanLine)
          /\ OnMarker /\ ~DataLineFits =>
                /\ result'.i = result.i + 1
                /\ result'.win = result.win /\ result'.place = result.place]_vars

\* the scan has ended after a marker line outside any section and a
\* marker line with its data line in the place section
C22_Witness ==
    /\ pc = "scanning"
    /\ IsMarkerLine(text[1])
    /\ result.currentSection = "place"
    /\ DOMAIN result.win = {} /\ DOMAIN result.place # {}
    /\ result.i = Len(ScanLinesOf(text)) + 1

\* the fragment of a text that holds a single one, as segmented
TheBlock == splitIntoHorseBlocks(text)[1]

\* the lines among which the name is looked for, noise filtered out
Candidates ==
    SelectSeq(SubSeq(TheBlock, 3, Min({Len(TheBlock), 6})), IsNameCandidate)

HasGenderAgeColor == \E i \in 1..Len(TheBlock) : GenderAgeColorAt(TheBlock[i]) # 0

HasJockey ==
    \E g, i \in 1..Len(TheBlock) :
        /\ g < i
        /\ GenderAgeColorAt(TheBlock[g]) # 0
        /\ GenderAgeColorAt(TheBlock[i]) = 0
        /\ IsJockeyLine(TheBlock[i])

HasTrainer == \E i \in 1..Len(TheBlock) : TrainerAt(TheBlock[i]) # 0

\* a line with odds and popularity, or with the body weight
HasOddsOrBodyWeight ==
    \E i \in 1..Len(TheBlock) :
        MatchesOddsPattern(TheBlock[i]) \/ MatchesWeightPattern(TheBlock[i])

\* the fragment gave no record but a diagnostic (an error, or a warning
\* when invalid horses are skipped)
FragmentFailed ==
    /\ result.data = <<>>
    /\ IF config.skipInvalidHorses
       THEN FragmentWarnings(result) # {}
       ELSE FragmentErrors(result) # {}

NameResolved ==
    Len(result.data) = 1 =>
        /\ Len(Candidates) >= 2 => result.data[1].name = Candidates[2]
        /\ Len(Candidates) = 1 => result.data[1].name = Candidates[1]

FragmentTexts(o, t) ==
    IF o = "parseHorseDataInternal"
    THEN LET ms == MarkerPositions(t)
         IN  [j \in 1..Len(ms) |->
                 SubSeq(t, ms[j], IF j < Len(ms) THEN ms[j + 1] - 1 ELSE Len(t))]
    ELSE LET ls == SelectSeq(t, NonBlank)
         IN  [j \in 1..Len(ls) |-> <<ls[j]>>]

\* the records the extractor returns for a text
RecordsOf(o, t, cfg) ==
    IF o = "parseHorseDataInternal"
    THEN parseHorseDataInternal(t, cfg).data
    ELSE parseHorseDataInternal_legacy(t, cfg).data

\* C25: the records come in the order of their fragments in the text, and
\* each is the record its fragment gives on its own: the list is the
\* records of the fragments taken one by one, put together in text order,
\* whichever of the other fragments fail.
C25_OrderAndIndependence ==
    pc = "done" /\ op \in HorseOps =>
        LET fs == FragmentTexts(op, text)
        IN  result.data =
                Concat([j \in 1..Len(fs) |-> RecordsOf(op, fs[j], config)])

\* two records not in the order of their numbers, and a fragment that
\* failed before the last of them
C25_Witness ==
    /\ pc = "done" /\ op \in HorseOps
    /\ Len(result.data) = 2
    /\ result.data[1].number > result.data[2].number
    /\ \E j \in 1..2 : RecordsOf(op, FragmentTexts(op, text)[j], config) = <<>>

\* the alternatives of the condition and class patterns, as listed
ConditionAlternatives == <<"Ryo", "Yayaomo", "Omo", "Furyo">>

ClassAlternatives ==
    <<"G1", "G2", "G3", "Listed", "Open", "3Kachi", "2Kachi", "1Kachi", "Mishori">>

\* the tokens of kind k in the text, in text order
TokensOf(t, k) ==
    LET xs == SelectSeq(TagText(t), LAMBDA x : x.a.k = k)
    IN  [i \in 1..Len(xs) |-> xs[i].a.s]

\* the alternative listed first among those that occur
EarliestListed(alternatives, tokens) ==
    alternatives[Min({i \in 1..Len(alternatives) : alternatives[i] \in Range(tokens)})]

\* without a token the default is used and a warning says so
NotFoundIsNoFailure ==
    /\ TokensOf(text, "cond") = <<>> =>
           /\ result.data.condition = "FIRM"
           /\ Warning("conditionDefault", 0) \in Range(result.warnings)
    /\ TokensOf(text, "class") = <<>> =>
           /\ result.data.raceClass = "OPEN"
           /\ Warning("classDefault", 0) \in Range(result.warnings)

ReturnedRaceInfo ==
    Done("parseRaceInfo_legacy") /\ text \in MatchTexts /\ ~config.strictMode

C27_LoopsTerminate ==
    /\ (pc = "ready") ~> (pc = "done")
    /\ [][Scanning =>
             \/ /\ result'.i > result.i
                /\ result'.i <= Len(LoopLines(op, text)) + 1
             \/ op = "parseHorseBlock" /\ result'.left]_vars

\* the loops at their end: the odds scan after skipping a data line that
\* was the last line, the jockey loop left with break
C27_Witness ==
    /\ pc = "scanning"
    /\ \/ /\ op = "parseOdds"
          /\ DOMAIN result.win # {}
          /\ result.i = Len(ScanLinesOf(text)) + 1
          /\ MatchesWin(text[Len(text)])
       \/ op = "parseHorseBlock" /\ result.left


(***************************************************************************)
(* The race input wizard: the hook useRaceInputWizard of a mounted         *)
(* component.  React hands the callbacks of one render to the component;   *)
(* the state updates they make are queued and applied, in order, when the  *)
(* component renders again.  A form's values are kept as what the schema   *)
(* makes of them: whether they are valid.                                  *)
(***************************************************************************)
StepCount == 4

Forms == 1..3

MaxBatch == 2

MaxDrafts == 1

\* the highest step number the wizard is followed to
MaxStepValue == 6

ParserIdle ==
    /\ pc = "idle" /\ op = "none"
    /\ config = DefaultConfig
    /\ text = <<>>
    /\ result = NoResult
    /\ clock = 0
    /\ previous = NoCall

NoneValid == [f \in Forms |-> FALSE]

\* steps[id - 1].isValid as the render computes it
StepIsValid(isValid, id) ==
    IF id \in Forms THEN isValid[id] ELSE \A f \in Forms : isValid[f]

\* reading steps[currentStep - 1].isValid throws a TypeError when the
\* element is missing and the test currentStep < 4 did not cut it short
RenderThrows(currentStep) ==
    currentStep < StepCount /\ currentStep \notin 1..StepCount

\* the queued updates are applied and the callbacks are made anew
Rendered(w) ==
    LET s == w.next
    IN  IF RenderThrows(s.currentStep)
        THEN [w EXCEPT !.status = "crashed",
                       !.currentStep = s.currentStep, !.calls = 0]
        ELSE [w EXCEPT !.currentStep = s.currentStep,
                       !.isDraftSaved = s.isDraftSaved,
                       !.isSubmitting = s.isSubmitting,
                       !.canGoNext = /\ s.currentStep < StepCount
                                     /\ StepIsValid(w.isValid, s.currentStep),
                       !.canGoPrevious = s.currentStep > 1,
                       !.calls = 0]

MountedWizard ==
    [status |-> "mounted",
     currentStep |-> 1, isDraftSaved |-> FALSE, isSubmitting |-> FALSE,
     canGoNext |-> FALSE, canGoPrevious |-> FALSE,
     next |-> [currentStep |-> 1, isDraftSaved |-> FALSE,
               isSubmitting |-> FALSE],
     calls |-> 0,
     isValid |-> NoneValid,
     drafts |-> <<>>,
     timer |-> FALSE]

\* a callback of the last render is called
Called(w) == w.status = "mounted" /\ w.calls < MaxBatch

\* the browser is between two events: nothing is waiting to be rendered
Settled(w) == w.status = "mounted" /\ w.calls = 0

goToStep(w, step) ==
    IF step >= 1 /\ step <= 4
    THEN [w EXCEPT !.next.currentStep = step]
    ELSE w

nextStep(w) ==
    IF w.canGoNext
    THEN [w EXCEPT !.next.currentStep = @ + 1]
    ELSE w

previousStep(w) ==
    IF w.canGoPrevious
    THEN [w EXCEPT !.next.currentStep = @ - 1]
    ELSE w

resetAllForms(w) ==
    [w EXCEPT !.isValid = NoneValid,
              !.next.currentStep = 1,
              !.next.isDraftSaved = FALSE]

saveDraft(w) ==
    LET draftData == [step |-> w.currentStep, data |-> w.isValid]
        kept == SubSeq(w.drafts, 1, Min({4, Len(w.drafts)}))
    IN  [w EXCEPT !.drafts = <<draftData>> \o kept,
                  !.next.isDraftSaved = TRUE,
                  !.timer = TRUE]

\* draftId is the place of the draft in the stored list, 0 an id not there
loadDraft(w, draftId) ==
    IF draftId \in DOMAIN w.drafts
    THEN [w EXCEPT !.isValid = w.drafts[draftId].data,
                   !.next.currentStep = w.drafts[draftId].step]
    ELSE w

deleteDraft(w, draftId) ==
    [w EXCEPT !.drafts = SelectSeq(w.drafts,
                             LAMBDA d : ~(draftId \in DOMAIN w.drafts
                                          /\ d = w.drafts[draftId]))]

submitRace(w) ==
    LET submitting == [w EXCEPT !.next.isSubmitting = TRUE]
        reset == resetAllForms(submitting)
    IN  [reset EXCEPT !.drafts = <<>>, !.next.isSubmitting = FALSE]

Call(w) == [w EXCEPT !.calls = @ + 1]

GoToStep ==
    /\ Called(wizard)
    /\ \E step \in 0..(StepCount + 1) : wizard' = Call(goToStep(wizard, step))
    /\ UNCHANGED <<parserVars, store, sync>>

NextStep ==
    /\ Called(wizard)
    /\ wizard.next.currentStep < MaxStepValue
    /\ wizard' = Call(nextStep(wizard))
    /\ UNCHANGED <<parserVars, store, sync>>

PreviousStep ==
    /\ Called(wizard)
    /\ wizard' = Call(previousStep(wizard))
    /\ UNCHANGED <<parserVars, store, sync>>

ResetAllForms ==
    /\ Called(wizard)
    /\ wizard' = Call(resetAllForms(wizard))
    /\ UNCHANGED <<parserVars, store, sync>>

\* called by the component or by the interval of the auto save
SaveDraft ==
    /\ Called(wizard)
    /\ Len(wizard.drafts) < MaxDrafts
    /\ wizard' = Call(saveDraft(wizard))
    /\ UNCHANGED <<parserVars, store, sync>>

LoadDraft ==
    /\ Called(wizard)
    /\ \E draftId \in 0..MaxDrafts : wizard' = Call(loadDraft(wizard, draftId))
    /\ UNCHANGED <<parserVars, store, sync>>

DeleteDraft ==
    /\ Called(wizard)
    /\ \E draftId \in 0..MaxDrafts :
          wizard' = Call(deleteDraft(wizard, draftId))
    /\ UNCHANGED <<parserVars, store, sync>>

SubmitRace ==
    /\ Called(wizard)
    /\ wizard' = Call(submitRace(wizard))
    /\ UNCHANGED <<parserVars, store, sync>>

\* the timeout set by saveDraft takes the flag back
DraftSavedTimeout ==
    /\ Settled(wizard) /\ wizard.timer
    /\ wizard' = Rendered([wizard EXCEPT !.timer = FALSE,
                                         !.next.isDraftSaved = FALSE])
    /\ UNCHANGED <<parserVars, store, sync>>

\* the user types into a form and the schema judges the new values
EditForm ==
    /\ Settled(wizard)
    /\ \E f \in Forms :
          wizard' = Rendered([wizard EXCEPT !.isValid[f] = ~@])
    /\ UNCHANGED <<parserVars, store, sync>>

Render ==
    /\ wizard.status = "mounted" /\ wizard.calls > 0
    /\ wizard' = Rendered(wizard)
    /\ UNCHANGED <<parserVars, store, sync>>

InitWizard ==
    /\ ParserIdle
    /\ wizard = MountedWizard
    /\ store = NoApp /\ sync = NoApp

NextWizard ==
    \/ GoToStep \/ NextStep \/ PreviousStep
    \/ ResetAllForms \/ SaveDraft \/ LoadDraft \/ DeleteDraft \/ SubmitRace
    \/ DraftSavedTimeout \/ EditForm \/ Render

SpecWizard == InitWizard /\ [][NextWizard]_vars

\* C28: the step the wizard shows is always one of its four steps
C28_StepInRange == wizard.currentStep \in 1..StepCount


(***************************************************************************)
(* The investment store: useInvestmentStore.  Amounts are in thousands of  *)
(* yen.  Of bankrollStatus the balance and the three totals are kept; an   *)
(* asynchronous operation is one step up to its await and one step from    *)
(* the repository's answer on.                                             *)
(***************************************************************************)
InitialBalance == 100

MaxInvestments == 2

MaxInFlight == 1

\* the highest total of amounts the store is followed to
MaxInvested == 3

\* the records the repository and the callers hand to the store
WinInvestment ==
    [id |-> 1, amount |-> 1, payout |-> 3, profit |-> 2, date |-> 1]

LossInvestment ==
    [id |-> 2, amount |-> 1, payout |-> 0, profit |-> 0 - 1, date |-> 0]

InvestmentPool == {WinInvestment, LossInvestment}

InvestmentLists == SeqsOf(InvestmentPool, 0, MaxInvestments)

\* Partial<Investment>: the fields an update overwrites
UpdatePool == {[payout |-> 0, profit |-> 0 - 1], [amount |-> 2, profit |-> 1]}

initialBankrollStatus ==
    [currentBalance |-> InitialBalance,
     initialBalance |-> InitialBalance,
     totalInvested |-> 0,
     totalReturned |-> 0,
     totalProfit |-> 0]

InitialStore ==
    [investments |-> <<>>,
     bankrollStatus |-> initialBankrollStatus,
     loading |-> FALSE,
     error |-> "null",
     inFlight |-> <<>>,
     last |-> "none"]

RECURSIVE SumAmounts(_)
SumAmounts(investments) ==
    IF investments = <<>> THEN 0
    ELSE Head(investments).amount + SumAmounts(Tail(investments))

RECURSIVE SumPayouts(_)
SumPayouts(investments) ==
    IF investments = <<>> THEN 0
    ELSE Head(investments).payout + SumPayouts(Tail(investments))

\* Array.prototype.sort by date: stable, and in place
RECURSIVE InsertByDate(_, _)
InsertByDate(inv, sorted) ==
    IF sorted = <<>> THEN <<inv>>
    ELSE IF Head(sorted).date <= inv.date
    THEN <<Head(sorted)>> \o InsertByDate(inv, Tail(sorted))
    ELSE <<inv>> \o sorted

RECURSIVE SortByDate(_)
SortByDate(investments) ==
    IF investments = <<>> THEN <<>>
    ELSE InsertByDate(investments[Len(investments)],
                      SortByDate(SubSeq(investments, 1, Len(investments) - 1)))

calculateBankrollStatus_always(s) ==
    LET totalInvested == SumAmounts(s.investments)
        totalReturned == SumPayouts(s.investments)
        totalProfit == totalReturned - totalInvested
    IN  [s EXCEPT
           !.investments = SortByDate(s.investments),
           !.bankrollStatus =
              [currentBalance |->
                  s.bankrollStatus.initialBalance + totalProfit,
               initialBalance |-> s.bankrollStatus.initialBalance,
               totalInvested |-> totalInvested,
               totalReturned |-> totalReturned,
               totalProfit |-> totalProfit]]

calculateBankrollStatus(s) ==
    IF Len(s.investments) = 0
    THEN s
    ELSE calculateBankrollStatus_always(s)

updateBankrollAfterResult(s, investment) ==
    [s EXCEPT
       !.bankrollStatus.currentBalance = @ + investment.profit,
       !.bankrollStatus.totalInvested = @ + investment.amount,
       !.bankrollStatus.totalReturned = @ + investment.payout,
       !.bankrollStatus.totalProfit = @ + investment.profit]

\* { ...investment, ...updates }
Merged(investment, updates) ==
    [k \in DOMAIN investment |->
        IF k \in DOMAIN updates THEN updates[k] ELSE investment[k]]

MapUpdates(investments, id, updates) ==
    [i \in DOMAIN investments |->
        IF investments[i].id = id
        THEN Merged(investments[i], updates)
        ELSE investments[i]]

\* what the repository does with a request
Outcomes == {"success", "failure", "throws"}

Without(seq, i) == SubSeq(seq, 1, i - 1) \o SubSeq(seq, i + 1, Len(seq))

Started(s, request) ==
    [s EXCEPT !.loading = TRUE, !.error = "null",
              !.inFlight = Append(@, request),
              !.last = request.kind \o "/start"]

Rejected(s, request, outcome) ==
    [s EXCEPT !.loading = FALSE, !.error = outcome,
              !.last = request.kind \o "/error"]

SetInvestments ==
    /\ \E investments \in InvestmentLists :
          store' = calculateBankrollStatus(
                      [store EXCEPT !.investments = investments,
                                    !.last = "setInvestments"])
    /\ UNCHANGED <<parserVars, wizard, sync>>

StartAddInvestment ==
    /\ Len(store.inFlight) < MaxInFlight
    /\ \E investment \in InvestmentPool :
          store' = Started(store, [kind |-> "addInvestment",
                                   id |-> investment.id,
                                   data |-> investment])
    /\ UNCHANGED <<parserVars, wizard, sync>>

StartUpdateInvestment ==
    /\ Len(store.inFlight) < MaxInFlight
    /\ \E id \in {i.id : i \in InvestmentPool}, updates \in UpdatePool :
          store' = Started(store, [kind |-> "updateInvestment",
                                   id |-> id, data |-> updates])
    /\ UNCHANGED <<parserVars, wizard, sync>>

StartDeleteInvestment ==
    /\ Len(store.inFlight) < MaxInFlight
    /\ \E id \in {i.id : i \in InvestmentPool} :
          store' = Started(store, [kind |-> "deleteInvestment",
                                   id |-> id, data |-> <<>>])
    /\ UNCHANGED <<parserVars, wizard, sync>>

FinishAddInvestment ==
    /\ \E i \in DOMAIN store.inFlight, outcome \in Outcomes :
          LET request == store.inFlight[i]
              rest == [store EXCEPT !.inFlight = Without(@, i)]
          IN  /\ request.kind = "addInvestment"
              /\ outcome = "success" =>
                    /\ Len(store.investments) < MaxInvestments
                    /\ store.bankrollStatus.totalInvested < MaxInvested
              /\ store' =
                    IF outcome = "success"
                    THEN updateBankrollAfterResult(
                            [rest EXCEPT
                               !.investments = Append(@, request.data),
                               !.loading = FALSE,
                               !.last = "addInvestment/success"],
                            request.data)
                    ELSE Rejected(rest, request, outcome)
    /\ UNCHANGED <<parserVars, wizard, sync>>

FinishUpdateInvestment ==
    /\ \E i \in DOMAIN store.inFlight, outcome \in Outcomes :
          LET request == store.inFlight[i]
              rest == [store EXCEPT !.inFlight = Without(@, i)]
          IN  /\ request.kind = "updateInvestment"
              /\ store' =
                    IF outcome = "success"
                    THEN calculateBankrollStatus(
                            [rest EXCEPT
                               !.investments =
                                  MapUpdates(@, request.id, request.data),
                               !.loading = FALSE,
                               !.last = "updateInvestment/success"])
                    ELSE Rejected(rest, request, outcome)
    /\ UNCHANGED <<parserVars, wizard, sync>>

FinishDeleteInvestment ==
    /\ \E i \in DOMAIN store.inFlight, outcome \in Outcomes :
          LET request == store.inFlight[i]
              rest == [store EXCEPT !.inFlight = Without(@, i)]
          IN  /\ request.kind = "deleteInvestment"
              /\ store' =
                    IF outcome = "success"
                    THEN calculateBankrollStatus(
                            [rest EXCEPT
                               !.investments =
                                  SelectSeq(@, LAMBDA inv :
                                                  inv.id # request.id),
                               !.loading = FALSE,
                               !.last = "deleteInvestment/success"])
                    ELSE Rejected(rest, request, outcome)
    /\ UNCHANGED <<parserVars, wizard, sync>>

InitStore ==
    /\ ParserIdle
    /\ store = InitialStore
    /\ wizard = NoApp /\ sync = NoApp

NextStore ==
    \/ SetInvestments
    \/ StartAddInvestment \/ FinishAddInvestment
    \/ StartUpdateInvestment \/ FinishUpdateInvestment
    \/ StartDeleteInvestment \/ FinishDeleteInvestment

SpecStore == InitStore /\ [][NextStore]_vars

\* the operations that replace or change the list
ListChanging ==
    {"setInvestments", "updateInvestment/success", "deleteInvestment/success"}

\* bankrollStatus says what the list in the store adds up to
StatusFromList ==
    LET b == store.bankrollStatus
    IN  /\ b.totalInvested = SumAmounts(store.investments)
        /\ b.totalReturned = SumPayouts(store.investments)
        /\ b.totalProfit = b.totalReturned - b.totalInvested
        /\ b.currentBalance = b.initialBalance + b.totalProfit

\* C29: after setInvestments, a successful deleteInvestment or a successful
\* updateInvestment, bankrollStatus holds the totals of the list now in the
\* store, whatever the list, the empty one included
C29_RecalculatedFromList ==
    store.last \in ListChanging => StatusFromList


(***************************************************************************)
(* The synchronising middleware: syncMiddleware around a store.  A job is  *)
(* the snapshot of the state that one call of the wrapped set hands to     *)
(* debouncedSync; it is named by the number of the state change that made  *)
(* it.  Timers fire and performSync settles in any order.                  *)
(***************************************************************************)
maxRetries == 3

MaxChanges == 2

Jobs == 1..MaxChanges

\* the names a store passes to set; "unnamed" is a call without a name
ActionNames == {"setInvestments", "setLoading", "clearError", "unnamed"}

skipSyncActions ==
    {"setLoading", "clearError", "sync/start", "sync/success", "sync/error"}

shouldSync(actionName) ==
    IF actionName = "unnamed"
    THEN FALSE
    ELSE actionName \notin skipSyncActions

InitialSync ==
    [changes |-> 0,
     status |-> [syncing |-> FALSE, lastSyncAt |-> "undefined",
                 syncError |-> "undefined"],
     last |-> "none",
     retryCount |-> 0,
     jobs |-> [j \in Jobs |-> "none"],
     attempts |-> [j \in Jobs |-> 0]]

\* clearTimeout(syncTimeout): the job that waits for its debounce is dropped
ClearTimeout(jobs) ==
    [j \in Jobs |-> IF jobs[j] = "debouncing" THEN "cleared" ELSE jobs[j]]

\* debouncedSync(state, actionName) up to the setTimeout
debouncedSync(s, job) ==
    [s EXCEPT !.jobs = [ClearTimeout(s.jobs) EXCEPT ![job] = "debouncing"]]

\* a store action calls the wrapped set
WrappedSet ==
    /\ sync.changes < MaxChanges
    /\ \E actionName \in ActionNames :
          LET changed == [sync EXCEPT !.changes = @ + 1,
                                      !.last = actionName]
          IN  sync' = IF shouldSync(actionName)
                      THEN debouncedSync(changed, changed.changes)
                      ELSE changed
    /\ UNCHANGED <<parserVars, wizard, store>>

\* the debounce timer fires: sync/start, and performSync is called
StartSync ==
    /\ \E job \in Jobs :
          /\ sync.jobs[job] = "debouncing"
          /\ sync' = [sync EXCEPT !.status.syncing = TRUE,
                                  !.status.syncError = "undefined",
                                  !.last = "sync/start",
                                  !.attempts[job] = @ + 1,
                                  !.jobs[job] = "syncing"]
    /\ UNCHANGED <<parserVars, wizard, store>>

\* performSync resolves: sync/success
SyncSucceeds ==
    /\ \E job \in Jobs :
          /\ sync.jobs[job] = "syncing"
          /\ sync' = [sync EXCEPT !.status = [syncing |-> FALSE,
                                              lastSyncAt |-> "date",
                                              syncError |-> "undefined"],
                                  !.last = "sync/success",
                                  !.retryCount = 0,
                                  !.jobs[job] = "synced"]
    /\ UNCHANGED <<parserVars, wizard, store>>

\* performSync rejects: a retry is set up, or sync/error when none is left
SyncFails ==
    /\ \E job \in Jobs :
          /\ sync.jobs[job] = "syncing"
          /\ sync' = IF sync.retryCount < maxRetries
                     THEN [sync EXCEPT !.retryCount = @ + 1,
                                       !.jobs[job] = "retrying"]
                     ELSE [sync EXCEPT !.status.syncing = FALSE,
                                       !.status.syncError = "Sync failed",
                                       !.last = "sync/error",
                                       !.retryCount = 0,
                                       !.jobs[job] = "failed"]
    /\ UNCHANGED <<parserVars, wizard, store>>

\* the retry timer fires and calls debouncedSync with the job's snapshot
RetrySync ==
    /\ \E job \in Jobs :
          /\ sync.jobs[job] = "retrying"
          /\ sync' = debouncedSync(sync, job)
    /\ UNCHANGED <<parserVars, wizard, store>>

InitSync ==
    /\ ParserIdle
    /\ sync = InitialSync
    /\ wizard = NoApp /\ store = NoApp

NextSync ==
    WrappedSet \/ StartSync \/ SyncSucceeds \/ SyncFails \/ RetrySync

SpecSync == InitSync /\ [][NextSync]_vars

\* timers fire and performSync settles
LiveSync ==
    /\ SpecSync
    /\ WF_vars(StartSync) /\ WF_vars(SyncSucceeds \/ SyncFails)
    /\ WF_vars(RetrySync)

\* a job gives up in this step: its last retry has failed
GivesUp ==
    \E job \in Jobs : sync.jobs[job] = "syncing" /\ sync'.jobs[job] = "failed"

\* C30: performSync is called for one state change at most 1 + maxRetries
\* times; when the last retry has failed syncing is false, syncError is set
\* and the retry counter is back at 0; the status updates of the middleware
\* start no sync of their own
C30_BoundedRetries ==
    /\ [](\A job \in Jobs : sync.attempts[job] <= 1 + maxRetries)
    /\ [][GivesUp => /\ ~sync'.status.syncing
                     /\ sync'.status.syncError # "undefined"
                     /\ sync'.retryCount = 0]_vars
    /\ [](\A name \in {"sync/start", "sync/success", "sync/error"} :
             ~shouldSync(name))

\* C30, the part about the end: once the state changes have stopped and the
\* timers have run out, syncing is false and stays so
C30_SyncingEnds == <>[](~sync.status.syncing)

====
